---- MODULE Spec2Model ----
(***************************************************************************)
(* A model of the isolate client: the batcharchive pipeline                *)
(* (cmd/isolate/batch_archive.go, isolate/isolate.go), the archive stage   *)
(* with its de-duplicating filter, FileToMetadata, and the configuration   *)
(* resolution of isolate/storage.go (Configs, ConfigSettings).             *)
(*                                                                         *)
(* Goroutines are processes with a program counter; a Go select is one     *)
(* action that takes any one of the cases that are ready when it runs.     *)
(* A variable shared by goroutines without synchronisation (the loop       *)
(* variables captured by the closures) is a plain shared variable that the *)
(* reader sees at whatever value it has when the reader runs.              *)
(***************************************************************************)
EXTENDS Integers, Sequences, FiniteSets, TLC

\* ------------------------------------------------------------------ bounds

\* Number of *.isolated.gen.json paths given on the command line.
NumGenFiles == 2

\* Target names (the file name of --isolated without its extension).
Names == {"a", "b"}

GenIds == 1..NumGenFiles

VARIABLES
    \* ---- inputs of batchArchiveRun.main
    genOk,            \* genOk[p]: parseGenFile(p) succeeds
    genName,          \* genName[p]: target name of the tree gen file p describes
    dumpJson,         \* the --dump-json flag is set
    \* ---- interrupt.Channel
    interrupted,      \* interrupt.Channel is closed
    intrAt,           \* where main was when the user raised the interrupt ("" if never)
    \* ---- parseGenFiles
    genPc,            \* the generator passed to parallel.FanOutIn
    genIdx,           \* index of the next path of the range loop
    genJsonPath,      \* the range loop's variable, captured by every task closure
    taskPc,           \* taskPc[i]: the task scheduled by iteration i
    taskTree,         \* taskTree[i]: the gen file the task parsed
    taskErr,          \* taskErr[i]: what the task returned
    schedAfterIntr,   \* a task was scheduled while interrupt.Channel was closed
    chGenErrors,      \* chErrors of parseGenFiles (buffer 1)
    treesClosed,      \* chTrees is closed
    \* ---- IsolateAsync
    tree,             \* the range loop's variable, captured by every worker closure
    treesIn,          \* the trees received from chTrees, in order
    spawnPc,          \* the goroutine that ranges over trees
    workerPc,         \* workerPc[i]: the worker started for the tree of task i
    wTarget,          \* the worker's targetName
    wHash,            \* treeIsolatedHashes[0]
    wErr,             \* err of isolateTree
    resultsClosed,    \* chResults is closed
    collPc,           \* the collector goroutine
    isolateHashes,    \* the collector's map
    chIsolateHashes,  \* buffer 1
    chIsoErrors,      \* chError of IsolateAsync (buffer 1)
    collSends,        \* the sends the collector has made, in order
    \* ---- ArchiveAsync
    archPc,
    chArchiveErrors,  \* buffer 1
    \* ---- prepareItemsForUpload
    faQueue,          \* FileAssets waiting in chFileAssets
    faClosed,         \* chFileAssets is closed
    prepPc,
    prepItem,         \* the item prepareItemsForUpload is sending
    seen,             \* seen[fullPath]
    skipped,
    emitted,          \* the FileAssets whose UploadItem was received from chOut, in order
    outClosed,        \* chOut is closed
    \* ---- batchArchiveRun.main
    mainPc,
    mainResult,       \* what main returned
    received,         \* the channels main has received from
    written,          \* what was written to the --dump-json file
    isolatedHashes,   \* the map received from chIsolateHashes
    \* ---- Archive and the storage backend
    assetsIn,         \* the fileAssets argument of Archive
    stored,           \* the digests the backend holds
    upPc,             \* Storage.Upload
    containsLog,      \* the Contains calls: the items asked about and those missing
    pushLog,          \* the Push calls: the item and the push state passed
    archiveResult,    \* what Archive returned
    \* ---- FileToMetadata
    file,             \* the file on disk
    prev,             \* the saved FileMetadata of the file
    prevStat,         \* the stat the saved record was made from
    out,              \* the result of the last FileToMetadata call
    ranStat,          \* the stat at the last call
    ranPrev,          \* the prev argument of the last call
    ranPrevStat,      \* the stat ranPrev was made from
    ranArgs,          \* readOnly and algo of the last call
    \* ---- Configs
    cfgA, cfgB, cfgC, \* three Configs, as loaded from .isolate files
    unionAB,          \* cfgA.Union(cfgB)
    unionBA,          \* cfgB.Union(cfgA)
    unionBC,          \* cfgB.Union(cfgC)
    unionAB_C,        \* unionAB.Union(cfgC)
    unionA_BC,        \* cfgA.Union(unionBC)
    cfgPc,            \* how far the calls on the Configs have got
    cfgQuery,         \* the argument of the last resolution
    resolved,         \* what GetConfig returned on each union
    getOut,            \* what GetConfig returned on cfgA
    \* ---- calls of single functions
    cmpIn,            \* three ConfigNames of one length
    cmpOut,           \* <<>>, or the results of compareConfigNames on them
    setL,             \* a ConfigSettings
    setR,             \* a ConfigSettings
    setOut,           \* <<>>, or <<setL.Union(setR)>>
    declared,         \* Configs.ConfigVariables
    supplied,         \* the configVariables map given on the command line
    nameOut,          \* <<>>, or <<the result of computeConfigName>>
    expVars,          \* the newConfigVars given to expandConfigVariables
    expanded,         \* <<>>, or <<the pairs expandConfigVariables returned>>
    argsIn,           \* the args given to convertPyToGoArchiveCMDArgs
    argsOut,          \* <<>>, or <<the args it returned>>
    exactOut,         \* <<>>, or <<what GetExactConfig returned on cfgA>>
    cfgBefore,        \* <<>>, or <<cfgA as it was before GetConfig>>
    getAgain          \* <<>>, or <<what a second GetConfig returned on cfgA>>

inVars == <<genOk, genName, dumpJson>>
intrVars == <<interrupted, intrAt>>
genVars == <<genPc, genIdx, genJsonPath, taskPc, taskTree, taskErr, schedAfterIntr,
             chGenErrors, treesClosed>>
isoVars == <<tree, treesIn, spawnPc, workerPc, wTarget, wHash, wErr, resultsClosed,
             collPc, isolateHashes, chIsolateHashes, chIsoErrors, collSends>>
archVars == <<archPc, chArchiveErrors>>
mainVars == <<mainPc, mainResult, received, written, isolatedHashes>>
pipeVars == <<inVars, intrVars, genVars, isoVars, archVars, mainVars>>

prepVars == <<faQueue, faClosed, prepPc, prepItem, seen, skipped, emitted, outClosed>>

upVars == <<assetsIn, stored, upPc, containsLog, pushLog, archiveResult>>

metaVars == <<file, prev, prevStat, out, ranStat, ranPrev, ranPrevStat, ranArgs>>

cfgVars == <<cfgA, cfgB, cfgC, unionAB, unionBA, unionBC, unionAB_C, unionA_BC,
             cfgPc, cfgQuery, resolved, getOut>>

fnVars == <<cmpIn, cmpOut, setL, setR, setOut, declared, supplied, nameOut,
            expVars, expanded>>

callVars == <<argsIn, argsOut, exactOut, cfgBefore, getAgain>>
libVars == <<metaVars, cfgVars, fnVars, callVars>>

restVars == <<upVars, libVars>>

vars == <<pipeVars, prepVars, restVars>>

\* ---------------------------------------------------------------- channels

\* A buffered channel: what is in the buffer, and whether it is closed.
Chan(buf, closed) == [buf |-> buf, closed |-> closed]
EmptyChan == Chan(<<>>, FALSE)

\* A receive proceeds when a value is buffered or the channel is closed.
CanRecv(ch) == ch.buf # <<>> \/ ch.closed

\* The received value: the buffered one, or the zero value once closed and drained.
Recv(ch, zero) == IF ch.buf # <<>> THEN Head(ch.buf) ELSE zero

\* A Go map value; a nil map is what a closed, drained channel of maps yields.
NilMap == [isNil |-> TRUE, m |-> <<>>]
MakeMap == [isNil |-> FALSE, m |-> <<>>]
MapSet(mp, k, v) ==
    [isNil |-> FALSE,
     m |-> [x \in (DOMAIN mp.m) \cup {k} |-> IF x = k THEN v ELSE mp.m[x]]]

\* ------------------------------------------------- batcharchive: the stages

\* The program runs until main returns: Run then leaves through os.Exit.
Running == mainPc # "done"

\* parseGenFile: the gen file is read and checked (version, dir, arguments).
parseGenFile(p) == IF genOk[p] THEN [tree |-> p, err |-> "nil"]
                               ELSE [tree |-> 0, err |-> "parse"]

\* The dependency files that the .isolate file of tree t lists for the
\* tree's configuration: the first tree has one, every other tree two.
DependencyFiles(t) == IF t = 1 THEN {"/x/f"} ELSE {"/x/f", "/x/g.zip"}

\* isolateTree returns one hash and no error, whatever the tree, and sends
\* nothing on chFileAssets.
isolateTree(t) == [hashes |-> <<"test">>, err |-> "nil", assets |-> <<>>]

\* common.GetFileNameWithoutExtension(tree.Opts.Isolated)
TargetName(t) == genName[t]

\* Storage.Connect
Connect == "nil"

\* Storage.Upload as it stands in the source: it returns nil at once.
UploadNow == "nil"

\* What parallel.FanOutIn returns once every task has returned: nil when no
\* task failed, else the tasks' errors together.
FanOutInResult ==
    LET errs == {taskErr[i] : i \in GenIds} \ {"nil"}
    IN  IF errs = {} THEN "nil"
        ELSE IF errs = {"interrupted"} THEN "genInterrupted"
        ELSE "genErr"

InitPrepIdle ==
    /\ faQueue = <<>>
    /\ faClosed = FALSE
    /\ prepPc = "idle"
    /\ prepItem = <<>>
    /\ seen = {}
    /\ skipped = 0
    /\ emitted = <<>>
    /\ outClosed = FALSE

InitPipe ==
    /\ genOk \in [GenIds -> BOOLEAN]
    /\ genName \in [GenIds -> Names]
    /\ dumpJson \in BOOLEAN
    /\ interrupted = FALSE
    /\ intrAt = ""
    /\ genPc = "loop"
    /\ genIdx = 1
    /\ genJsonPath = 0
    /\ taskPc = [i \in GenIds |-> "idle"]
    /\ taskTree = [i \in GenIds |-> 0]
    /\ taskErr = [i \in GenIds |-> "nil"]
    /\ schedAfterIntr = FALSE
    /\ chGenErrors = EmptyChan
    /\ treesClosed = FALSE
    /\ tree = 0
    /\ treesIn = <<>>
    /\ spawnPc = "range"
    /\ workerPc = [i \in GenIds |-> "idle"]
    /\ wTarget = [i \in GenIds |-> ""]
    /\ wHash = [i \in GenIds |-> ""]
    /\ wErr = [i \in GenIds |-> "nil"]
    /\ resultsClosed = FALSE
    /\ collPc = "range"
    /\ isolateHashes = MakeMap
    /\ chIsolateHashes = EmptyChan
    /\ chIsoErrors = EmptyChan
    /\ collSends = <<>>
    /\ archPc = "start"
    /\ chArchiveErrors = EmptyChan
    /\ mainPc = "select"
    /\ mainResult = "none"
    /\ received = {}
    /\ written = <<>>
    /\ isolatedHashes = NilMap

InitCfgIdle ==
    /\ cfgA = <<>>
    /\ cfgB = <<>>
    /\ cfgC = <<>>
    /\ unionAB = <<>>
    /\ unionBA = <<>>
    /\ unionBC = <<>>
    /\ unionAB_C = <<>>
    /\ unionA_BC = <<>>
    /\ cfgPc = "idle"
    /\ cfgQuery = <<>>
    /\ resolved = <<>>
    /\ getOut = <<>>

InitMetaIdle ==
    /\ file = <<>>
    /\ prev = <<>>
    /\ prevStat = <<>>
    /\ out = <<>>
    /\ ranStat = <<>>
    /\ ranPrev = <<>>
    /\ ranPrevStat = <<>>
    /\ ranArgs = <<>>

InitUpIdle ==
    /\ assetsIn = <<>>
    /\ stored = {}
    /\ upPc = "idle"
    /\ containsLog = <<>>
    /\ pushLog = <<>>
    /\ archiveResult = "none"

InitCallIdle ==
    /\ argsIn = <<>>
    /\ argsOut = <<>>
    /\ exactOut = <<>>
    /\ cfgBefore = <<>>
    /\ getAgain = <<>>

\* No single function is being called.
InitFnIdle ==
    /\ InitCallIdle
    /\ cmpIn = <<>>
    /\ cmpOut = <<>>
    /\ setL = <<>>
    /\ setR = <<>>
    /\ setOut = <<>>
    /\ declared = <<>>
    /\ supplied = <<>>
    /\ nameOut = <<>>
    /\ expVars = <<>>
    /\ expanded = <<>>

Init == InitPipe /\ InitPrepIdle /\ InitUpIdle /\ InitMetaIdle /\ InitCfgIdle /\ InitFnIdle

\* ---- parseGenFiles (batch_archive.go 143-171)

\* One iteration of the range loop whose select takes the send: the loop
\* variable is set and FanOutIn starts the task in a goroutine of its own.
GenSchedule ==
    /\ Running
    /\ genPc = "loop"
    /\ genIdx <= NumGenFiles
    /\ genJsonPath' = genIdx
    /\ taskPc' = [taskPc EXCEPT ![genIdx] = "parse"]
    /\ genIdx' = genIdx + 1
    /\ schedAfterIntr' = (schedAfterIntr \/ interrupted)
    /\ UNCHANGED <<genPc, taskTree, taskErr, chGenErrors, treesClosed>>
    /\ UNCHANGED <<inVars, intrVars, isoVars, archVars, mainVars, prepVars, restVars>>

\* The select takes <-interrupt.Channel: the generator returns.
GenInterrupted ==
    /\ Running
    /\ genPc = "loop"
    /\ genIdx <= NumGenFiles
    /\ interrupted
    /\ genJsonPath' = genIdx
    /\ genPc' = "done"
    /\ UNCHANGED <<genIdx, taskPc, taskTree, taskErr, schedAfterIntr, chGenErrors,
                   treesClosed>>
    /\ UNCHANGED <<inVars, intrVars, isoVars, archVars, mainVars, prepVars, restVars>>

\* The range loop is over.
GenEnd ==
    /\ Running
    /\ genPc = "loop"
    /\ genIdx > NumGenFiles
    /\ genPc' = "done"
    /\ UNCHANGED <<genIdx, genJsonPath, taskPc, taskTree, taskErr, schedAfterIntr,
                   chGenErrors, treesClosed>>
    /\ UNCHANGED <<inVars, intrVars, isoVars, archVars, mainVars, prepVars, restVars>>

\* The task calls parseGenFile(genJsonPath): it reads the loop variable as it
\* is when the task runs.
TaskParse(i) ==
    /\ Running
    /\ taskPc[i] = "parse"
    /\ LET r == parseGenFile(genJsonPath)
       IN  IF r.err # "nil"
           THEN /\ taskPc' = [taskPc EXCEPT ![i] = "done"]
                /\ taskErr' = [taskErr EXCEPT ![i] = r.err]
                /\ UNCHANGED taskTree
           ELSE /\ taskPc' = [taskPc EXCEPT ![i] = "send"]
                /\ taskTree' = [taskTree EXCEPT ![i] = r.tree]
                /\ UNCHANGED taskErr
    /\ UNCHANGED <<genPc, genIdx, genJsonPath, schedAfterIntr, chGenErrors, treesClosed>>
    /\ UNCHANGED <<inVars, intrVars, isoVars, archVars, mainVars, prepVars, restVars>>

\* The task's select takes <-interrupt.Channel.
TaskInterrupted(i) ==
    /\ Running
    /\ taskPc[i] = "send"
    /\ interrupted
    /\ taskPc' = [taskPc EXCEPT ![i] = "done"]
    /\ taskErr' = [taskErr EXCEPT ![i] = "interrupted"]
    /\ UNCHANGED <<genPc, genIdx, genJsonPath, taskTree, schedAfterIntr, chGenErrors,
                   treesClosed>>
    /\ UNCHANGED <<inVars, intrVars, isoVars, archVars, mainVars, prepVars, restVars>>

\* FanOutIn returns; its result is sent on chErrors, and the deferred closes
\* run: close(chErrors), then close(chTrees).
GenFinish ==
    /\ Running
    /\ genPc = "done"
    /\ ~treesClosed
    /\ \A i \in GenIds : taskPc[i] \in {"idle", "done"}
    /\ chGenErrors' = Chan(<<FanOutInResult>>, TRUE)
    /\ treesClosed' = TRUE
    /\ UNCHANGED <<genPc, genIdx, genJsonPath, taskPc, taskTree, taskErr, schedAfterIntr>>
    /\ UNCHANGED <<inVars, intrVars, isoVars, archVars, mainVars, prepVars, restVars>>

\* ---- IsolateAsync (isolate.go 419-461)

\* chTrees <- tree meets `for tree := range trees`: the task returns nil, the
\* loop variable of IsolateAsync is set, wg.Add(1), and the worker goroutine
\* is started.
TreeHandoff(i) ==
    /\ Running
    /\ taskPc[i] = "send"
    /\ spawnPc = "range"
    /\ taskPc' = [taskPc EXCEPT ![i] = "done"]
    /\ tree' = taskTree[i]
    /\ treesIn' = Append(treesIn, taskTree[i])
    /\ workerPc' = [workerPc EXCEPT ![i] = "name"]
    /\ UNCHANGED <<genPc, genIdx, genJsonPath, taskTree, taskErr, schedAfterIntr,
                   chGenErrors, treesClosed>>
    /\ UNCHANGED <<spawnPc, wTarget, wHash, wErr, resultsClosed, collPc, isolateHashes,
                   chIsolateHashes, chIsoErrors, collSends>>
    /\ UNCHANGED <<inVars, intrVars, archVars, mainVars, prepVars, restVars>>

\* chTrees is closed: the range loop ends and the goroutine calls wg.Wait().
SpawnEnd ==
    /\ Running
    /\ spawnPc = "range"
    /\ treesClosed
    /\ spawnPc' = "wait"
    /\ UNCHANGED <<tree, treesIn, workerPc, wTarget, wHash, wErr, resultsClosed, collPc,
                   isolateHashes, chIsolateHashes, chIsoErrors, collSends>>
    /\ UNCHANGED <<inVars, intrVars, genVars, archVars, mainVars, prepVars, restVars>>

\* A faulty variant of the spawning goroutine: it closes the channels
\* without waiting for the workers.
SpawnCloseNoWait ==
    /\ Running
    /\ spawnPc = "wait"
    /\ spawnPc' = "done"
    /\ resultsClosed' = TRUE
    /\ faClosed' = TRUE
    /\ UNCHANGED <<tree, treesIn, workerPc, wTarget, wHash, wErr, collPc, isolateHashes,
                   chIsolateHashes, chIsoErrors, collSends>>
    /\ UNCHANGED <<faQueue, prepPc, prepItem, seen, skipped, emitted, outClosed>>
    /\ UNCHANGED <<inVars, intrVars, genVars, archVars, mainVars, restVars>>

\* wg.Wait() returns; close(chFileAssets); close(chResults).
SpawnClose ==
    /\ Running
    /\ spawnPc = "wait"
    /\ \A i \in GenIds : workerPc[i] \in {"idle", "done"}
    /\ spawnPc' = "done"
    /\ resultsClosed' = TRUE
    /\ faClosed' = TRUE
    /\ UNCHANGED <<tree, treesIn, workerPc, wTarget, wHash, wErr, collPc, isolateHashes,
                   chIsolateHashes, chIsoErrors, collSends>>
    /\ UNCHANGED <<faQueue, prepPc, prepItem, seen, skipped, emitted, outClosed>>
    /\ UNCHANGED <<inVars, intrVars, genVars, archVars, mainVars, restVars>>

\* The worker computes targetName from the captured loop variable, as it is
\* when the worker runs.
WorkerName(i) ==
    /\ Running
    /\ workerPc[i] = "name"
    /\ wTarget' = [wTarget EXCEPT ![i] = TargetName(tree)]
    /\ workerPc' = [workerPc EXCEPT ![i] = "isolate"]
    /\ UNCHANGED <<tree, treesIn, spawnPc, wHash, wErr, resultsClosed, collPc,
                   isolateHashes, chIsolateHashes, chIsoErrors, collSends>>
    /\ UNCHANGED <<inVars, intrVars, genVars, archVars, mainVars, prepVars, restVars>>

\* The worker calls isolateTree(tree, chFileAssets), again on the captured
\* loop variable.
WorkerIsolate(i) ==
    /\ Running
    /\ workerPc[i] = "isolate"
    /\ LET r == isolateTree(tree)
       IN  /\ wHash' = [wHash EXCEPT ![i] = r.hashes[1]]
           /\ wErr' = [wErr EXCEPT ![i] = r.err]
           /\ faQueue' = faQueue \o r.assets
    /\ workerPc' = [workerPc EXCEPT ![i] = "send"]
    /\ UNCHANGED <<tree, treesIn, spawnPc, wTarget, resultsClosed, collPc,
                   isolateHashes, chIsolateHashes, chIsoErrors, collSends>>
    /\ UNCHANGED <<faClosed, prepPc, prepItem, seen, skipped, emitted, outClosed>>
    /\ UNCHANGED <<inVars, intrVars, genVars, archVars, mainVars, restVars>>

\* chResults <- result{...} meets `for r := range chResults`; the worker then
\* calls wg.Done(). On an error the collector sends it and returns, and its
\* deferred closes run; else it records the hash under the target name.
ResultHandoff(i) ==
    /\ Running
    /\ workerPc[i] = "send"
    /\ collPc = "range"
    /\ workerPc' = [workerPc EXCEPT ![i] = "done"]
    /\ IF wErr[i] # "nil"
       THEN /\ chIsoErrors' = Chan(<<wErr[i]>>, TRUE)
            /\ chIsolateHashes' = Chan(<<>>, TRUE)
            /\ collSends' = Append(collSends, [ch |-> "chError", val |-> wErr[i]])
            /\ collPc' = "done"
            /\ UNCHANGED isolateHashes
       ELSE /\ isolateHashes' = MapSet(isolateHashes, wTarget[i], wHash[i])
            /\ UNCHANGED <<chIsoErrors, chIsolateHashes, collPc, collSends>>
    /\ UNCHANGED <<tree, treesIn, spawnPc, wTarget, wHash, wErr, resultsClosed>>
    /\ UNCHANGED <<inVars, intrVars, genVars, archVars, mainVars, prepVars, restVars>>

\* chResults is closed and drained: the collector sends the map, then nil on
\* chError, and its deferred closes run.
CollectEnd ==
    /\ Running
    /\ collPc = "range"
    /\ resultsClosed
    /\ chIsolateHashes' = Chan(<<isolateHashes>>, TRUE)
    /\ chIsoErrors' = Chan(<<"nil">>, TRUE)
    /\ collSends' = collSends \o <<[ch |-> "chIsolateHashes", val |-> isolateHashes],
                                   [ch |-> "chError", val |-> "nil"]>>
    /\ collPc' = "done"
    /\ UNCHANGED <<tree, treesIn, spawnPc, workerPc, wTarget, wHash, wErr, resultsClosed,
                   isolateHashes>>
    /\ UNCHANGED <<inVars, intrVars, genVars, archVars, mainVars, prepVars, restVars>>

\* ---- ArchiveAsync (isolate.go 498-511)

\* Connect; on success prepareItemsForUpload starts its goroutine and Upload
\* is called; the error of either is sent on chError, which is then closed.
ArchiveRun ==
    /\ Running
    /\ archPc = "start"
    /\ archPc' = "done"
    /\ IF Connect # "nil"
       THEN /\ chArchiveErrors' = Chan(<<Connect>>, TRUE)
            /\ UNCHANGED prepPc
       ELSE /\ prepPc' = "range"
            /\ chArchiveErrors' = Chan(<<UploadNow>>, TRUE)
    /\ UNCHANGED <<faQueue, faClosed, prepItem, seen, skipped, emitted, outClosed>>
    /\ UNCHANGED <<inVars, intrVars, genVars, isoVars, mainVars, restVars>>

\* ---- prepareItemsForUpload (isolate.go 464-486)

\* chIn is closed and drained: the range loop ends, chOut is closed.
PrepClosed ==
    /\ Running
    /\ prepPc = "range"
    /\ faQueue = <<>>
    /\ faClosed
    /\ prepPc' = "done"
    /\ outClosed' = TRUE
    /\ UNCHANGED <<faQueue, faClosed, prepItem, seen, skipped, emitted>>
    /\ UNCHANGED <<pipeVars, restVars>>

\* ---- batchArchiveRun.main (batch_archive.go 173-207)

\* main returns r; the deferred interrupt.Set() closes interrupt.Channel.
MainReturn(r) ==
    /\ mainPc' = "done"
    /\ mainResult' = r
    /\ interrupted' = TRUE
    /\ UNCHANGED intrAt

\* The cases of main's select that can proceed.
ReadyCases ==
    {c \in {"gen"} : CanRecv(chGenErrors)}
    \cup {c \in {"iso"} : CanRecv(chIsoErrors)}
    \cup {c \in {"archive"} : CanRecv(chArchiveErrors)}
    \cup {c \in {"interrupt"} : interrupted}

\* The select: one ready case is taken. A nil from chGenErrors or from
\* chIsoErrors leaves the select and reaches the final `return nil`.
MainSelect ==
    /\ mainPc = "select"
    /\ \E c \in ReadyCases :
        /\ received' = received \cup {c}
        /\ CASE c = "gen" -> MainReturn(Recv(chGenErrors, "nil"))
             [] c = "iso" -> MainReturn(Recv(chIsoErrors, "nil"))
             [] c = "archive" ->
                    IF Recv(chArchiveErrors, "nil") # "nil"
                    THEN MainReturn(Recv(chArchiveErrors, "nil"))
                    ELSE /\ mainPc' = "hashes"
                         /\ UNCHANGED <<mainResult, interrupted, intrAt>>
             [] c = "interrupt" -> MainReturn("interrupted")
    /\ UNCHANGED <<written, isolatedHashes>>
    /\ UNCHANGED <<inVars, genVars, isoVars, archVars, prepVars, restVars>>

\* isolatedHashes := <-chIsolateHashes; with --dump-json the map is written
\* and the result of WriteJSONFile is returned.
MainHashes ==
    /\ mainPc = "hashes"
    /\ CanRecv(chIsolateHashes)
    /\ received' = received \cup {"hashes"}
    /\ isolatedHashes' = Recv(chIsolateHashes, NilMap)
    /\ IF dumpJson
       THEN \E ok \in BOOLEAN :
                IF ok THEN /\ written' = <<Recv(chIsolateHashes, NilMap)>>
                           /\ MainReturn("nil")
                      ELSE /\ UNCHANGED written
                           /\ MainReturn("writeErr")
       ELSE /\ UNCHANGED written
            /\ MainReturn("nil")
    /\ UNCHANGED <<inVars, genVars, isoVars, archVars, prepVars, restVars>>

\* ---- the user interrupts the process (interrupt.HandleCtrlC)
UserInterrupt ==
    /\ Running
    /\ ~interrupted
    /\ interrupted' = TRUE
    /\ intrAt' = mainPc
    /\ UNCHANGED <<inVars, genVars, isoVars, archVars, mainVars, prepVars, restVars>>

Next ==
    \/ GenSchedule
    \/ GenInterrupted
    \/ GenEnd
    \/ \E i \in GenIds : TaskParse(i)
    \/ \E i \in GenIds : TaskInterrupted(i)
    \/ GenFinish
    \/ \E i \in GenIds : TreeHandoff(i)
    \/ SpawnEnd
    \/ SpawnClose
    \/ \E i \in GenIds : WorkerName(i)
    \/ \E i \in GenIds : WorkerIsolate(i)
    \/ \E i \in GenIds : ResultHandoff(i)
    \/ CollectEnd
    \/ ArchiveRun
    \/ PrepClosed
    \/ MainSelect
    \/ MainHashes
    \/ UserInterrupt

Spec == Init /\ [][Next]_vars

\* ---- the collector of IsolateAsync, statement by statement

\* make(chan ..., 1) of chIsolateHashes and of chError.
BufferSize == 1

\* A send on a buffered channel proceeds when the buffer has room.
CanSend(ch) == Len(ch.buf) < BufferSize

\* A faulty variant of the collector's error branch: it goes on ranging.
AfterErrorGoOn == "range"

\* Where the collector is after `chError <- r.err`: it returns, and its
\* deferred closes run.
AfterError == "close"

\* Workers that have a result to send, of any outcome; the trees are all
\* handed out and the spawning goroutine is in wg.Wait(). The caller is
\* Isolate, in its select loop.
InitCollect ==
    /\ InitPrepIdle
    /\ InitUpIdle
    /\ InitMetaIdle
    /\ InitCfgIdle
    /\ InitFnIdle
    /\ genOk = [p \in GenIds |-> TRUE]
    /\ genName = [p \in GenIds |-> "a"]
    /\ dumpJson = FALSE
    /\ interrupted = FALSE
    /\ intrAt = ""
    /\ genPc = "done"
    /\ genIdx = 1
    /\ genJsonPath = 0
    /\ taskPc = [i \in GenIds |-> "idle"]
    /\ taskTree = [i \in GenIds |-> 0]
    /\ taskErr = [i \in GenIds |-> "nil"]
    /\ schedAfterIntr = FALSE
    /\ chGenErrors = EmptyChan
    /\ treesClosed = TRUE
    /\ tree = 0
    /\ treesIn = <<>>
    /\ spawnPc = "wait"
    /\ workerPc \in [GenIds -> {"idle", "send"}]
    /\ wTarget \in [GenIds -> Names \cup {""}]
    /\ wHash \in [GenIds -> {"", "test"}]
    /\ wErr \in [GenIds -> {"nil", "treeErr"}]
    /\ \A i \in GenIds :
          IF workerPc[i] = "idle"
          THEN wTarget[i] = "" /\ wHash[i] = "" /\ wErr[i] = "nil"
          ELSE wTarget[i] # "" /\ wHash[i] = "test"
    /\ resultsClosed = FALSE
    /\ collPc = "range"
    /\ isolateHashes = MakeMap
    /\ chIsolateHashes = EmptyChan
    /\ chIsoErrors = EmptyChan
    /\ collSends = <<>>
    /\ archPc = "start"
    /\ chArchiveErrors = EmptyChan
    /\ mainPc = "isolate"
    /\ mainResult = "none"
    /\ received = {}
    /\ written = <<>>
    /\ isolatedHashes = NilMap

\* `for r := range chResults` receives the result of a worker, which then
\* calls wg.Done(): an error takes the collector to `chError <- r.err`, else
\* the hash is recorded under the target name.
CollectRecv(i) ==
    /\ workerPc[i] = "send"
    /\ collPc = "range"
    /\ workerPc' = [workerPc EXCEPT ![i] = "done"]
    /\ IF wErr[i] # "nil"
       THEN /\ collPc' = "sendErr"
            /\ UNCHANGED isolateHashes
       ELSE /\ isolateHashes' = MapSet(isolateHashes, wTarget[i], wHash[i])
            /\ UNCHANGED collPc
    /\ UNCHANGED <<tree, treesIn, spawnPc, wTarget, wHash, wErr, resultsClosed,
                   chIsolateHashes, chIsoErrors, collSends>>
    /\ UNCHANGED <<inVars, intrVars, genVars, archVars, mainVars, prepVars, restVars>>

\* `chError <- r.err; return`, r being the one result with an error that
\* the collector has received.
CollectSendErr ==
    /\ collPc = "sendErr"
    /\ CanSend(chIsoErrors)
    /\ LET i == CHOOSE j \in GenIds : workerPc[j] = "done" /\ wErr[j] # "nil"
       IN  /\ chIsoErrors' = [chIsoErrors EXCEPT !.buf = Append(@, wErr[i])]
           /\ collSends' = Append(collSends, [ch |-> "chError", val |-> wErr[i]])
    /\ collPc' = AfterError
    /\ UNCHANGED <<tree, treesIn, spawnPc, workerPc, wTarget, wHash, wErr, resultsClosed,
                   isolateHashes, chIsolateHashes>>
    /\ UNCHANGED <<inVars, intrVars, genVars, archVars, mainVars, prepVars, restVars>>

\* chResults is closed: the range loop ends.
CollectRangeEnd ==
    /\ collPc = "range"
    /\ resultsClosed
    /\ collPc' = "sendHashes"
    /\ UNCHANGED <<tree, treesIn, spawnPc, workerPc, wTarget, wHash, wErr, resultsClosed,
                   isolateHashes, chIsolateHashes, chIsoErrors, collSends>>
    /\ UNCHANGED <<inVars, intrVars, genVars, archVars, mainVars, prepVars, restVars>>

\* chIsolateHashes <- isolateHashes
CollectSendHashes ==
    /\ collPc = "sendHashes"
    /\ CanSend(chIsolateHashes)
    /\ chIsolateHashes' = [chIsolateHashes EXCEPT !.buf = Append(@, isolateHashes)]
    /\ collSends' = Append(collSends, [ch |-> "chIsolateHashes", val |-> isolateHashes])
    /\ collPc' = "sendNil"
    /\ UNCHANGED <<tree, treesIn, spawnPc, workerPc, wTarget, wHash, wErr, resultsClosed,
                   isolateHashes, chIsoErrors>>
    /\ UNCHANGED <<inVars, intrVars, genVars, archVars, mainVars, prepVars, restVars>>

\* chError <- nil
CollectSendNil ==
    /\ collPc = "sendNil"
    /\ CanSend(chIsoErrors)
    /\ chIsoErrors' = [chIsoErrors EXCEPT !.buf = Append(@, "nil")]
    /\ collSends' = Append(collSends, [ch |-> "chError", val |-> "nil"])
    /\ collPc' = "close"
    /\ UNCHANGED <<tree, treesIn, spawnPc, workerPc, wTarget, wHash, wErr, resultsClosed,
                   isolateHashes, chIsolateHashes>>
    /\ UNCHANGED <<inVars, intrVars, genVars, archVars, mainVars, prepVars, restVars>>

\* The collector returns: close(chIsolateHashes), then close(chError).
CollectClose ==
    /\ collPc = "close"
    /\ chIsolateHashes' = [chIsolateHashes EXCEPT !.closed = TRUE]
    /\ chIsoErrors' = [chIsoErrors EXCEPT !.closed = TRUE]
    /\ collPc' = "done"
    /\ UNCHANGED <<tree, treesIn, spawnPc, workerPc, wTarget, wHash, wErr, resultsClosed,
                   isolateHashes, collSends>>
    /\ UNCHANGED <<inVars, intrVars, genVars, archVars, mainVars, prepVars, restVars>>

\* `case i := <-chIsolateHashes` of the select of Isolate: isolatedHashes
\* becomes the buffered map, or the nil map that the closed, drained channel
\* yields.
IsolateRecvHashes ==
    /\ mainPc = "isolate"
    /\ CanRecv(chIsolateHashes)
    /\ isolatedHashes' = Recv(chIsolateHashes, NilMap)
    /\ chIsolateHashes' = [chIsolateHashes EXCEPT !.buf = IF @ = <<>> THEN @ ELSE Tail(@)]
    /\ received' = received \cup {"hashes"}
    /\ UNCHANGED <<tree, treesIn, spawnPc, workerPc, wTarget, wHash, wErr, resultsClosed,
                   collPc, isolateHashes, chIsoErrors, collSends>>
    /\ UNCHANGED <<mainPc, mainResult, written>>
    /\ UNCHANGED <<inVars, intrVars, genVars, archVars, prepVars, restVars>>

\* `case fa := <-chFileAssets` of the select of Isolate: an asset a worker
\* sends, or the zero FileAsset that the closed channel yields, is appended
\* to fileAssets.
IsolateRecvAsset ==
    /\ mainPc = "isolate"
    /\ faQueue # <<>> \/ faClosed
    /\ faQueue' = IF faQueue = <<>> THEN faQueue ELSE Tail(faQueue)
    /\ received' = received \cup {"fa"}
    /\ UNCHANGED <<mainPc, mainResult, written, isolatedHashes>>
    /\ UNCHANGED <<faClosed, prepPc, prepItem, seen, skipped, emitted, outClosed>>
    /\ UNCHANGED <<inVars, intrVars, genVars, isoVars, archVars, restVars>>

\* `case e := <-chErrors` of the select of Isolate: err becomes the buffered
\* value, or the nil that the closed, drained channel yields. `for err == nil`
\* ends on an error only, and Isolate returns it.
IsolateRecvError ==
    /\ mainPc = "isolate"
    /\ CanRecv(chIsoErrors)
    /\ chIsoErrors' = [chIsoErrors EXCEPT !.buf = IF @ = <<>> THEN @ ELSE Tail(@)]
    /\ received' = received \cup {"iso"}
    /\ IF Recv(chIsoErrors, "nil") # "nil"
       THEN mainPc' = "returned" /\ mainResult' = Recv(chIsoErrors, "nil")
       ELSE UNCHANGED <<mainPc, mainResult>>
    /\ UNCHANGED <<tree, treesIn, spawnPc, workerPc, wTarget, wHash, wErr, resultsClosed,
                   collPc, isolateHashes, chIsolateHashes, collSends>>
    /\ UNCHANGED <<written, isolatedHashes>>
    /\ UNCHANGED <<inVars, intrVars, genVars, archVars, prepVars, restVars>>

NextCollect ==
    \/ \E i \in GenIds : CollectRecv(i)
    \/ CollectSendErr
    \/ SpawnClose
    \/ CollectRangeEnd
    \/ CollectSendHashes
    \/ CollectSendNil
    \/ CollectClose
    \/ IsolateRecvHashes
    \/ IsolateRecvAsset
    \/ IsolateRecvError

SpecCollect == InitCollect /\ [][NextCollect]_vars

\* Each goroutine that can take a step eventually takes one.
CollectorStep ==
    \/ \E i \in GenIds : CollectRecv(i)
    \/ CollectSendErr
    \/ CollectRangeEnd
    \/ CollectSendHashes
    \/ CollectSendNil
    \/ CollectClose
IsolateStep == IsolateRecvHashes \/ IsolateRecvAsset \/ IsolateRecvError
FairCollect == WF_vars(CollectorStep) /\ WF_vars(SpawnClose) /\ WF_vars(IsolateStep)
SpecCollectLive == InitCollect /\ [][NextCollect]_vars /\ FairCollect

\* ------------------------------------------------ Archive and the backend

\* Longest fileAssets slice given to Archive.
MaxAssets == 3

\* Absolute paths of dependency files, and the digests of their content.
Paths == {"/x/f", "/x/g.zip"}
Digests == {"d1", "d2"}
HashOfPath(p) == IF p = "/x/f" THEN "d1" ELSE "d2"

\* A FileAsset: the metadata keys "h", "l", "priority", the file's size, and
\* the full path. A symlink carries its target under "l" and no hash.
RegularAsset(p) == [fullPath |-> p, l |-> "", h |-> HashOfPath(p), priority |-> "",
                    size |-> 1]
SymlinkAsset(p) == [fullPath |-> p, l |-> "../t", h |-> "", priority |-> "", size |-> 1]
Assets == {RegularAsset(p) : p \in Paths} \cup {SymlinkAsset(p) : p \in Paths}
AssetSeqs == UNION {[1..n -> Assets] : n \in 0..MaxAssets}

\* FileMetadata.IsSymlink, FileMetadata.IsHighPriority, FileAsset.GetSize
IsSymlink(fa) == fa.l # ""
IsHighPriority(fa) == fa.priority = "0"
GetSize(fa) == fa.size

\* ALREADY_COMPRESSED_TYPES, and the extension of a path of the model.
ALREADY_COMPRESSED_TYPES ==
    {"7z", "avi", "cur", "gif", "h264", "jar", "jpeg", "jpg", "mp4", "pdf", "png",
     "wav", "zip"}
Extension(path) == IF path = "/x/g.zip" THEN "zip" ELSE ""

\* FileAsset.ToUploadItem
ToUploadItem(fa) ==
    [Digest |-> fa.h, Size |-> GetSize(fa), HighPriority |-> IsHighPriority(fa),
     CompressionLevel |-> 6, Path |-> fa.fullPath]

\* A faulty variant of the test: a symlink is treated as a file.
ShouldEmitSymlinkToo(fa, seenPaths) == fa.fullPath \notin seenPaths

\* A faulty variant of the test: the path is not looked up in seen.
ShouldEmitUnseenOrNot(fa, seenPaths) == ~IsSymlink(fa)

\* The test of prepareItemsForUpload: `!fa.IsSymlink() && !seen[fa.fullPath]`.
ShouldEmit(fa, seenPaths) == ~IsSymlink(fa) /\ fa.fullPath \notin seenPaths

\* StorageApi.Contains: the items of the argument that the backend misses.
Contains(items) == {k \in items : emitted[k].Digest \notin stored}

\* The push state Contains call n returned for item k.
PushState(n, k) == [call |-> n, item |-> k]

\* Faulty variants of Upload: every item is pushed; Push gets an empty push
\* state.
ItemsToPushAll(c) == c.items
PushStateEmpty(n, k) == [call |-> 0, item |-> 0]

\* Upload pushes the items the last Contains call reported missing, each with
\* the push state that call returned for it.
ItemsToPush(c) == c.missing
PushStateFor(n, k) == PushState(n, k)

Pushed == {pushLog[j].item : j \in 1..Len(pushLog)}

InitPipeIdle ==
    /\ genOk = [p \in GenIds |-> TRUE]
    /\ genName = [p \in GenIds |-> "a"]
    /\ dumpJson = FALSE
    /\ interrupted = FALSE
    /\ intrAt = ""
    /\ genPc = "done"
    /\ genIdx = 1
    /\ genJsonPath = 0
    /\ taskPc = [i \in GenIds |-> "idle"]
    /\ taskTree = [i \in GenIds |-> 0]
    /\ taskErr = [i \in GenIds |-> "nil"]
    /\ schedAfterIntr = FALSE
    /\ chGenErrors = EmptyChan
    /\ treesClosed = FALSE
    /\ tree = 0
    /\ treesIn = <<>>
    /\ spawnPc = "done"
    /\ workerPc = [i \in GenIds |-> "idle"]
    /\ wTarget = [i \in GenIds |-> ""]
    /\ wHash = [i \in GenIds |-> ""]
    /\ wErr = [i \in GenIds |-> "nil"]
    /\ resultsClosed = FALSE
    /\ collPc = "done"
    /\ isolateHashes = MakeMap
    /\ chIsolateHashes = EmptyChan
    /\ chIsoErrors = EmptyChan
    /\ collSends = <<>>
    /\ archPc = "start"
    /\ chArchiveErrors = EmptyChan
    /\ mainPc = "idle"
    /\ mainResult = "none"
    /\ received = {}
    /\ written = <<>>
    /\ isolatedHashes = NilMap

\* Archive(fileAssets, ...): the slice is put in a buffered channel, which is
\* closed, and ArchiveAsync is started (isolate.go 488-496).
InitArchive ==
    /\ InitPipeIdle
    /\ InitFnIdle
    /\ assetsIn \in AssetSeqs
    /\ stored \in SUBSET Digests
    /\ faQueue = assetsIn
    /\ faClosed = TRUE
    /\ prepPc = "idle"
    /\ prepItem = <<>>
    /\ seen = {}
    /\ skipped = 0
    /\ emitted = <<>>
    /\ outClosed = FALSE
    /\ upPc = "idle"
    /\ containsLog = <<>>
    /\ pushLog = <<>>
    /\ archiveResult = "none"
    /\ InitMetaIdle
    /\ InitCfgIdle

\* ArchiveAsync up to the call of Upload: Connect, then prepareItemsForUpload
\* starts its goroutine.
ArchiveStart ==
    /\ archPc = "start"
    /\ IF Connect # "nil"
       THEN /\ chArchiveErrors' = Chan(<<Connect>>, TRUE)
            /\ archPc' = "done"
            /\ UNCHANGED <<prepPc, upPc>>
       ELSE /\ prepPc' = "range"
            /\ upPc' = "recv"
            /\ archPc' = "upload"
            /\ UNCHANGED chArchiveErrors
    /\ UNCHANGED <<faQueue, faClosed, prepItem, seen, skipped, emitted, outClosed>>
    /\ UNCHANGED <<assetsIn, stored, containsLog, pushLog, archiveResult>>
    /\ UNCHANGED <<inVars, intrVars, genVars, isoVars, mainVars, libVars>>

\* prepareItemsForUpload takes the next FileAsset from chIn: a symlink or a
\* path already seen is skipped, else the path is marked and the item is
\* offered on chOut.
PrepRecv ==
    /\ Running
    /\ prepPc = "range"
    /\ faQueue # <<>>
    /\ LET fa == Head(faQueue)
       IN  /\ faQueue' = Tail(faQueue)
           /\ IF ShouldEmit(fa, seen)
              THEN /\ seen' = seen \cup {fa.fullPath}
                   /\ prepItem' = <<ToUploadItem(fa)>>
                   /\ prepPc' = "send"
                   /\ UNCHANGED skipped
              ELSE /\ skipped' = skipped + 1
                   /\ UNCHANGED <<seen, prepItem, prepPc>>
    /\ UNCHANGED <<faClosed, emitted, outClosed>>
    /\ UNCHANGED <<pipeVars, restVars>>

\* A faulty variant of the select: it has no interrupt case.
PrepSelectSendOnly == {c \in {"send"} : upPc = "recv"}

\* The cases of the select of prepareItemsForUpload that can proceed: the
\* send when Upload is receiving, the interrupt once the channel is closed.
PrepSelectCases ==
    {c \in {"send"} : upPc = "recv"} \cup {c \in {"interrupt"} : interrupted}

\* chOut <- item meets Upload's receive.
ItemHandoff ==
    /\ Running
    /\ prepPc = "send"
    /\ "send" \in PrepSelectCases
    /\ emitted' = Append(emitted, prepItem[1])
    /\ prepItem' = <<>>
    /\ prepPc' = "range"
    /\ UNCHANGED <<faQueue, faClosed, seen, skipped, outClosed>>
    /\ UNCHANGED <<pipeVars, restVars>>

\* A faulty variant of the interrupt case: the item is dropped and the loop
\* goes on.
PrepInterruptedGoesOn ==
    /\ Running
    /\ prepPc = "send"
    /\ "interrupt" \in PrepSelectCases
    /\ prepPc' = "range"
    /\ prepItem' = <<>>
    /\ UNCHANGED <<faQueue, faClosed, seen, skipped, emitted, outClosed>>
    /\ UNCHANGED <<pipeVars, restVars>>

\* The select takes <-interrupt.Channel: the goroutine returns, chOut is closed.
PrepInterrupted ==
    /\ Running
    /\ prepPc = "send"
    /\ "interrupt" \in PrepSelectCases
    /\ prepPc' = "done"
    /\ outClosed' = TRUE
    /\ UNCHANGED <<faQueue, faClosed, prepItem, seen, skipped, emitted>>
    /\ UNCHANGED <<pipeVars, restVars>>

\* Upload has received every item: chItems is closed.
UploadDrained ==
    /\ upPc = "recv"
    /\ outClosed
    /\ upPc' = "contains"
    /\ UNCHANGED <<assetsIn, stored, containsLog, pushLog, archiveResult>>
    /\ UNCHANGED <<pipeVars, prepVars, libVars>>

\* Upload asks the backend which items it misses.
UploadContains ==
    /\ upPc = "contains"
    /\ LET items == 1..Len(emitted)
       IN  containsLog' = Append(containsLog,
                                 [items |-> items, missing |-> Contains(items)])
    /\ upPc' = "push"
    /\ UNCHANGED <<assetsIn, stored, pushLog, archiveResult>>
    /\ UNCHANGED <<pipeVars, prepVars, libVars>>

\* Upload pushes one item; the backend stores it or fails, and a failure
\* ends Upload with the error.
UploadPush(k) ==
    /\ upPc = "push"
    /\ k \in ItemsToPush(containsLog[Len(containsLog)]) \ Pushed
    /\ pushLog' = Append(pushLog,
                         [item |-> k, state |-> PushStateFor(Len(containsLog), k)])
    /\ \E ok \in BOOLEAN :
          IF ok
          THEN /\ stored' = stored \cup {emitted[k].Digest}
               /\ UNCHANGED <<upPc, archPc, chArchiveErrors>>
          ELSE /\ upPc' = "done"
               /\ archPc' = "done"
               /\ chArchiveErrors' = Chan(<<"pushErr">>, TRUE)
               /\ UNCHANGED stored
    /\ UNCHANGED <<assetsIn, containsLog, archiveResult>>
    /\ UNCHANGED <<inVars, intrVars, genVars, isoVars, mainVars, prepVars, libVars>>

\* Every missing item is pushed: Upload returns nil, which ArchiveAsync sends
\* on chError.
UploadReturn ==
    /\ upPc = "push"
    /\ ItemsToPush(containsLog[Len(containsLog)]) \subseteq Pushed
    /\ upPc' = "done"
    /\ archPc' = "done"
    /\ chArchiveErrors' = Chan(<<"nil">>, TRUE)
    /\ UNCHANGED <<assetsIn, stored, containsLog, pushLog, archiveResult>>
    /\ UNCHANGED <<inVars, intrVars, genVars, isoVars, mainVars, prepVars, libVars>>

\* Archive returns <-chErrors.
ArchiveReturn ==
    /\ archiveResult = "none"
    /\ CanRecv(chArchiveErrors)
    /\ archiveResult' = Recv(chArchiveErrors, "nil")
    /\ UNCHANGED <<assetsIn, stored, upPc, containsLog, pushLog>>
    /\ UNCHANGED <<pipeVars, prepVars, libVars>>

NextArchive ==
    \/ ArchiveStart
    \/ PrepRecv
    \/ ItemHandoff
    \/ PrepInterrupted
    \/ PrepClosed
    \/ UploadDrained
    \/ UploadContains
    \/ \E k \in 1..MaxAssets : UploadPush(k)
    \/ UploadReturn
    \/ ArchiveReturn
    \/ UserInterrupt

SpecArchive == InitArchive /\ [][NextArchive]_vars

\* ---- the goroutines under a fair scheduler

\* A batcharchive run, or a call of Archive on a slice of FileAssets, with
\* Storage.Upload as it stands in the source.
InitLive == Init \/ InitArchive

NextLive ==
    \/ Next
    \/ PrepRecv
    \/ PrepInterrupted
    \/ (mainPc = "idle" /\ ArchiveReturn)

\* Go's scheduler lets every goroutine that can take a step take one.
FairGoroutines ==
    /\ WF_vars(GenSchedule \/ GenInterrupted \/ GenEnd \/ GenFinish)
    /\ \A i \in GenIds : WF_vars(TaskParse(i) \/ TaskInterrupted(i) \/ TreeHandoff(i))
    /\ WF_vars(SpawnEnd \/ SpawnClose)
    /\ \A i \in GenIds : WF_vars(WorkerName(i) \/ WorkerIsolate(i) \/ ResultHandoff(i))
    /\ WF_vars(CollectEnd)
    /\ WF_vars(ArchiveRun)
    /\ WF_vars(PrepRecv \/ PrepInterrupted \/ PrepClosed)
    /\ WF_vars(MainSelect \/ MainHashes)

SpecLive == InitLive /\ [][NextLive]_vars /\ FairGoroutines

\* ------------------------------------------------------------ FileToMetadata

\* Modification times (seconds since the epoch), sizes and contents of the
\* file on disk.
Mtimes == {100, 1400000000, 1400000060}
Sizes == {1, 2}
Contents == {"c1", "c2"}

\* The SHA-1 of a content, in hex.
Sha1(c) == IF c = "c1" THEN "h1" ELSE "h2"

\* string(n) of an integer n: the UTF-8 text of the code point n, and of
\* U+FFFD when n is no valid code point. A text is the sequence of its code
\* points; <<>> is the empty string, which a missing map key reads as.
RuneString(n) ==
    IF (0 <= n /\ n < 55296) \/ (57343 < n /\ n <= 1114111) THEN <<n>> ELSE <<65533>>

\* A FileMetadata map with none of the keys "h", "s", "t", "l", "m".
EmptyMeta == [h |-> "", s |-> <<>>, t |-> <<>>, l |-> "", m |-> <<>>]

\* A faulty variant of HashFile: the algorithm is not looked at.
HashFileAnyAlgo(f, algo) == [h |-> Sha1(f.content), err |-> "nil", opened |-> TRUE]

\* HashFile: only sha-1 is supported; the file's content is hashed. `opened`
\* tells whether os.Open was called.
HashFile(f, algo) ==
    IF algo # "sha-1" THEN [h |-> "", err |-> "unsupported", opened |-> FALSE]
    ELSE [h |-> Sha1(f.content), err |-> "nil", opened |-> TRUE]

\* a & b of two non-negative integers.
RECURSIVE BitAnd(_, _)
BitAnd(a, b) ==
    IF a = 0 \/ b = 0 THEN 0
    ELSE (a % 2) * (b % 2) + 2 * BitAnd(a \div 2, b \div 2)

\* a | b and a &^ b of two non-negative integers.
BitOr(a, b) == a + b - BitAnd(a, b)
BitClear(a, b) == a - BitAnd(a, b)

\* The permission bits of package unix and the mode bits of package os.
S_IWUSR == 128
S_IXUSR == 64
S_IRGRP == 32
S_IWGRP == 16
S_IXGRP == 8
S_IRWXO == 7
ModePerm == 511
ModeSticky == 1048576
ModeSetgid == 4194304
ModeSetuid == 8388608

\* filemode of FileToMetadata off Windows, for the mode os.Lstat reports:
\* an int32 below 2^24, so that no operation overflows.
FileMode(mode, readOnly) ==
    LET mask == BitOr(BitOr(ModePerm, ModeSticky), BitOr(ModeSetgid, ModeSetuid))
        masked == BitAnd(mask, mode)
        noGroupOther == BitClear(masked, BitOr(S_IWGRP, S_IRWXO))
        noWrite == IF readOnly THEN BitClear(noGroupOther, S_IWUSR) ELSE noGroupOther
    IN  IF BitAnd(noWrite, BitOr(S_IXUSR, S_IRGRP)) = BitOr(S_IXUSR, S_IRGRP)
        THEN BitOr(noWrite, S_IXGRP)
        ELSE BitClear(noWrite, S_IXGRP)

\* A faulty variant of FileToMetadata: prev is not looked at.
FileToMetadataWithoutPrev(f, pv, readOnly, algo) ==
    IF ~f.exists
    THEN [meta |-> EmptyMeta, err |-> "missing", hashed |-> FALSE, opened |-> FALSE,
          mode |-> 0]
    ELSE
      LET filemode == FileMode(f.mode, readOnly)
          out0 == [EmptyMeta EXCEPT !.t = RuneString(f.mtime),
                                    !.m = IF f.isLink THEN RuneString(filemode) ELSE <<>>]
      IN  IF ~f.isLink
          THEN LET r == HashFile(f, algo)
               IN  [meta |-> [out0 EXCEPT !.h = r.h], err |-> r.err, hashed |-> TRUE,
                    opened |-> r.opened, mode |-> filemode]
          ELSE [meta |-> [out0 EXCEPT !.l = f.target], err |-> "nil", hashed |-> FALSE,
                opened |-> FALSE, mode |-> filemode]

\* FileToMetadata(filePath, prev, readOnly, algo), f being what os.Lstat and
\* the file system give for filePath. `hashed` tells whether HashFile ran,
\* `mode` is the local filemode; out["m"] is set for a link only, to
\* string(filemode).
FileToMetadata(f, pv, readOnly, algo) ==
    IF ~f.exists
    THEN [meta |-> EmptyMeta, err |-> "missing", hashed |-> FALSE, opened |-> FALSE,
          mode |-> 0]
    ELSE
      LET filemode == FileMode(f.mode, readOnly)
          out0 == [EmptyMeta EXCEPT !.t = RuneString(f.mtime),
                                    !.m = IF f.isLink THEN RuneString(filemode) ELSE <<>>]
      IN  IF ~f.isLink
          THEN LET out1 == IF pv.t = out0.t /\ pv.s = out0.s
                           THEN [out0 EXCEPT !.h = pv.h]
                           ELSE out0
               IN  IF out1.h = ""
                   THEN LET r == HashFile(f, algo)
                        IN  [meta |-> [out1 EXCEPT !.h = r.h], err |-> r.err,
                             hashed |-> TRUE, opened |-> r.opened, mode |-> filemode]
                   ELSE [meta |-> out1, err |-> "nil", hashed |-> FALSE, opened |-> FALSE,
                         mode |-> filemode]
          ELSE LET out1 == IF pv.t = out0.t
                           THEN [out0 EXCEPT !.l = pv.l]
                           ELSE out0
               IN  IF out1.l = ""
                   THEN [meta |-> [out1 EXCEPT !.l = f.target], err |-> "nil",
                         hashed |-> FALSE, opened |-> FALSE, mode |-> filemode]
                   ELSE [meta |-> out1, err |-> "nil", hashed |-> FALSE, opened |-> FALSE,
                         mode |-> filemode]

\* What os.Lstat reports of the file.
Stat(f) == [mtime |-> f.mtime, size |-> f.size, isLink |-> f.isLink]
NoStat == [mtime |-> -1, size |-> -1, isLink |-> FALSE]

\* The modes os.Lstat may report: any permission bits with any of the sticky,
\* setgid and setuid bits.
ModesOnDisk ==
    {perm + special : perm \in 0..ModePerm,
                      special \in {a + b + c : a \in {0, ModeSticky}, b \in {0, ModeSetgid},
                                                c \in {0, ModeSetuid}}}

FilesOnDisk ==
    [exists : BOOLEAN, isLink : BOOLEAN, mtime : Mtimes, size : Sizes,
     content : Contents, target : {"../t"}, mode : ModesOnDisk]

InitMeta ==
    /\ InitPipeIdle
    /\ InitFnIdle
    /\ InitPrepIdle
    /\ InitUpIdle
    /\ InitCfgIdle
    /\ file \in {f \in FilesOnDisk : /\ f.mtime = 100 /\ f.size = 1 /\ f.content = "c1"
                                     /\ f.mode = IF f.isLink THEN 511 ELSE 420}
    /\ prev = EmptyMeta
    /\ prevStat = NoStat
    /\ out = [meta |-> EmptyMeta, err |-> "none", hashed |-> FALSE, opened |-> FALSE,
             mode |-> 0]
    /\ ranStat = NoStat
    /\ ranPrev = EmptyMeta
    /\ ranPrevStat = NoStat
    /\ ranArgs = <<>>

\* The file is rewritten: any of its content, size and mtime may change.
FsWrite(m, sz, c) ==
    /\ file.exists
    /\ ~file.isLink
    /\ <<m, sz, c>> # <<file.mtime, file.size, file.content>>
    /\ file' = [file EXCEPT !.mtime = m, !.size = sz, !.content = c]
    /\ UNCHANGED <<prev, prevStat, out, ranStat, ranPrev, ranPrevStat, ranArgs>>
    /\ UNCHANGED <<pipeVars, prepVars, upVars, cfgVars, fnVars, callVars>>

\* A link is replaced by a link made at another time.
FsRelink(m) ==
    /\ file.exists
    /\ file.isLink
    /\ m # file.mtime
    /\ file' = [file EXCEPT !.mtime = m]
    /\ UNCHANGED <<prev, prevStat, out, ranStat, ranPrev, ranPrevStat, ranArgs>>
    /\ UNCHANGED <<pipeVars, prepVars, upVars, cfgVars, fnVars, callVars>>

\* FileToMetadata is called on the file with the saved record as prev.
RunFileToMetadata(readOnly, algo) ==
    /\ out' = FileToMetadata(file, prev, readOnly, algo)
    /\ ranStat' = Stat(file)
    /\ ranPrev' = prev
    /\ ranPrevStat' = prevStat
    /\ ranArgs' = [readOnly |-> readOnly, algo |-> algo]
    /\ UNCHANGED <<file, prev, prevStat>>
    /\ UNCHANGED <<pipeVars, prepVars, upVars, cfgVars, fnVars, callVars>>

\* The record of a successful call is saved for the next run.
SaveState ==
    /\ out.err = "nil"
    /\ prev' = out.meta
    /\ prevStat' = ranStat
    /\ UNCHANGED <<file, out, ranStat, ranPrev, ranPrevStat, ranArgs>>
    /\ UNCHANGED <<pipeVars, prepVars, upVars, cfgVars, fnVars, callVars>>

NextMeta ==
    \/ \E m \in Mtimes, sz \in Sizes, c \in Contents : FsWrite(m, sz, c)
    \/ \E m \in Mtimes : FsRelink(m)
    \/ \E ro \in BOOLEAN, algo \in {"sha-1", "md5"} : RunFileToMetadata(ro, algo)
    \/ SaveState

SpecMeta == InitMeta /\ [][NextMeta]_vars

\* ---- FileToMetadata on a file of any mode

InitMode ==
    /\ InitPipeIdle
    /\ InitFnIdle
    /\ InitPrepIdle
    /\ InitUpIdle
    /\ InitCfgIdle
    /\ file \in {f \in FilesOnDisk : f.exists /\ f.mtime = 100 /\ f.size = 1 /\ f.content = "c1"}
    /\ prev = EmptyMeta
    /\ prevStat = NoStat
    /\ out = [meta |-> EmptyMeta, err |-> "none", hashed |-> FALSE, opened |-> FALSE,
             mode |-> 0]
    /\ ranStat = NoStat
    /\ ranPrev = EmptyMeta
    /\ ranPrevStat = NoStat
    /\ ranArgs = <<>>

NextMode == \E ro \in BOOLEAN : RunFileToMetadata(ro, "sha-1")

SpecMode == InitMode /\ [][NextMode]_vars

\* ------------------------------------------------- Configs, ConfigSettings

\* The strings of the model in Go's byte order (the order of < on strings and
\* of sort.Strings): '.' < '/' < '6' < '<' < 'O' < lower case letters.
ByteOrder ==
    <<"..", "64", "<(X)", "OS", "bit", "f", "g", "h", "linux", "mac", "x", "y">>
Rank(str) == CHOOSE i \in 1..Len(ByteOrder) : ByteOrder[i] = str
StrLess(a, b) == Rank(a) < Rank(b)

\* A path is the sequence of its components: "/x/y" is <<"/", "x", "y">>,
\* "../g" is <<"..", "g">>, "." is <<".">> and "" is <<>>. Since '.' and '/'
\* sort below every other byte of a component, two paths compare as strings
\* the way their component sequences compare lexicographically.
RECURSIVE PathLess(_, _)
PathLess(a, b) ==
    IF b = <<>> THEN FALSE
    ELSE IF a = <<>> THEN TRUE
    ELSE IF Head(a) = Head(b) THEN PathLess(Tail(a), Tail(b))
    ELSE StrLess(Head(a), Head(b))

\* sort.Strings on a list of paths. Equal strings cannot be told apart, so
\* the result is that of an insertion sort.
RECURSIVE InsertPath(_, _)
InsertPath(sorted, f) ==
    IF sorted = <<>> THEN <<f>>
    ELSE IF PathLess(f, sorted[Len(sorted)])
         THEN Append(InsertPath(SubSeq(sorted, 1, Len(sorted) - 1), f),
                     sorted[Len(sorted)])
         ELSE Append(sorted, f)
RECURSIVE SortStrings(_)
SortStrings(fs) ==
    IF fs = <<>> THEN <<>>
    ELSE InsertPath(SortStrings(SubSeq(fs, 1, Len(fs) - 1)), fs[Len(fs)])

\* filepath.Rel(basepath, targpath) of two absolute, clean paths: the common
\* prefix is dropped, one ".." stands for each component left of basepath.
RECURSIVE FilepathRel(_, _)
FilepathRel(basepath, targpath) ==
    IF basepath # <<>> /\ targpath # <<>> /\ Head(basepath) = Head(targpath)
    THEN FilepathRel(Tail(basepath), Tail(targpath))
    ELSE LET r == [i \in 1..Len(basepath) |-> ".."] \o targpath
         IN  IF r = <<>> THEN <<".">> ELSE r

\* filepath.Clean of a relative path: "." is dropped, ".." removes the
\* component before it unless that one is "..", the empty path is ".".
RECURSIVE CleanInto(_, _)
CleanInto(done, rest) ==
    IF rest = <<>> THEN done
    ELSE IF Head(rest) = "." THEN CleanInto(done, Tail(rest))
    ELSE IF Head(rest) = ".." /\ done # <<>> /\ done[Len(done)] # ".."
         THEN CleanInto(SubSeq(done, 1, Len(done) - 1), Tail(rest))
         ELSE CleanInto(Append(done, Head(rest)), Tail(rest))
FilepathClean(path) ==
    LET r == CleanInto(<<>>, path) IN IF r = <<>> THEN <<".">> ELSE r

\* common.PosixpathJoin(a, b) is filepath.Join: the joined path, cleaned.
PosixpathJoin(a, b) == FilepathClean(a \o b)

\* ConfigSettings{}, the empty object, and the ReadOnly of "not set".
EmptySettings == [Files |-> <<>>, Command |-> <<>>, ReadOnly |-> 0, IsolateDir |-> <<>>]
ReadOnlyUnset == -1

\* ConfigSettings.Init(values, isolateDir)
ConfigSettingsInit(command, files, readOnly, isolateDir) ==
    [Files |-> SortStrings(files), Command |-> command, ReadOnly |-> readOnly,
     IsolateDir |-> isolateDir]

\* A faulty variant of the readOnly: rhs.ReadOnly is not looked at.
ReadOnlyOfLhs(lhs, rhs) == lhs.ReadOnly

\* The readOnly of ConfigSettings.Union: lhs.ReadOnly unless it is -1.
UnionReadOnly(lhs, rhs) ==
    IF lhs.ReadOnly # ReadOnlyUnset THEN lhs.ReadOnly ELSE rhs.ReadOnly

\* strings.HasPrefix(f, "<(")
IsPathVariable(f) == f # <<>> /\ f[1] = "<(X)"

\* A faulty variant of the command: rhs has priority.
UnionCommandOfRhs(lhs, rhs) ==
    IF Len(rhs.Command) > 0 THEN rhs.Command ELSE lhs.Command

\* The command of ConfigSettings.Union: that of lhs if it has one, else that
\* of rhs.
UnionCommand(lhs, rhs) ==
    IF Len(lhs.Command) > 0 THEN lhs.Command
    ELSE IF Len(rhs.Command) > 0 THEN rhs.Command
    ELSE <<>>

\* useRhs of ConfigSettings.Union: rhs is the side whose IsolateDir is kept and
\* lhs the side whose files are rebased.
UseRhs(lhs, rhs) ==
    IF Len(lhs.Command) > 0 THEN FALSE
    ELSE IF Len(rhs.Command) > 0 THEN TRUE
    ELSE Len(lhs.Files) = 0

\* A faulty variant of the rebasing: path variables are rebased too.
RebaseItemAlways(rebasePath, f) ==
    IF rebasePath = <<".">> THEN f ELSE PosixpathJoin(rebasePath, f)

\* The loop body of ConfigSettings.Union over rFiles: the item is joined to
\* rebasePath unless it starts with "<(" or rebasePath is ".".
RebaseItem(rebasePath, f) ==
    IF ~(IsPathVariable(f) \/ rebasePath = <<".">>)
    THEN PosixpathJoin(rebasePath, f)
    ELSE f

\* A faulty variant of the union: the empty rhs is looked at first.
ConfigSettingsUnionRhsFirst(lhs, rhs) ==
    IF rhs.IsolateDir = <<>> THEN lhs
    ELSE IF lhs.IsolateDir = <<>> THEN rhs
    ELSE ConfigSettingsInit(lhs.Command, lhs.Files \o rhs.Files, lhs.ReadOnly,
                            lhs.IsolateDir)

\* lhs.Union(rhs) of ConfigSettings. Both IsolateDir are absolute, for which
\* filepath.Rel gives no error.
ConfigSettingsUnion(lhs, rhs) ==
    IF lhs.IsolateDir = <<>> THEN rhs
    ELSE IF rhs.IsolateDir = <<>> THEN lhs
    ELSE
      LET useRhs == UseRhs(lhs, rhs)
          command == UnionCommand(lhs, rhs)
          readOnly == UnionReadOnly(lhs, rhs)
          lRelCwd == IF useRhs THEN rhs.IsolateDir ELSE lhs.IsolateDir
          rRelCwd == IF useRhs THEN lhs.IsolateDir ELSE rhs.IsolateDir
          lFiles == IF useRhs THEN rhs.Files ELSE lhs.Files
          rFiles == IF useRhs THEN lhs.Files ELSE rhs.Files
          rebasePath == FilepathRel(rRelCwd, lRelCwd)
          rebased == [i \in 1..Len(rFiles) |-> RebaseItem(rebasePath, rFiles[i])]
      IN  ConfigSettingsInit(command, SortStrings(lFiles \o rebased), readOnly, lRelCwd)

\* ConfigValueOfKey: the zero value is unbound; Set(value) binds.
Unbound == [Value |-> "", IsBound |-> FALSE]
Bound(value) == [Value |-> value, IsBound |-> TRUE]

\* A faulty variant of the comparison: an unbound slot sorts before a bound one.
RECURSIVE compareUnboundFirst(_, _)
compareUnboundFirst(lhs, rhs) ==
    IF lhs = <<>> THEN 0
    ELSE LET l == Head(lhs)
             r == Head(rhs)
         IN  IF l.IsBound /\ r.IsBound /\ StrLess(l.Value, r.Value) THEN -1
             ELSE IF l.IsBound /\ r.IsBound /\ StrLess(r.Value, l.Value) THEN 1
             ELSE IF l.IsBound /\ ~r.IsBound THEN 1
             ELSE IF ~l.IsBound /\ r.IsBound THEN -1
             ELSE compareUnboundFirst(Tail(lhs), Tail(rhs))

\* compareConfigNames(lhs, rhs) of two ConfigNames of one length: the first
\* slot that decides; a bound value is less than an unbound one.
RECURSIVE compareConfigNames(_, _)
compareConfigNames(lhs, rhs) ==
    IF lhs = <<>> THEN 0
    ELSE LET l == Head(lhs)
             r == Head(rhs)
         IN  IF l.IsBound /\ r.IsBound /\ StrLess(l.Value, r.Value) THEN -1
             ELSE IF l.IsBound /\ r.IsBound /\ StrLess(r.Value, l.Value) THEN 1
             ELSE IF l.IsBound /\ ~r.IsBound THEN -1
             ELSE IF ~l.IsBound /\ r.IsBound THEN 1
             ELSE compareConfigNames(Tail(lhs), Tail(rhs))

\* ConfigName.Equals: reflect.DeepEqual of a *ConfigName and a ConfigName,
\* two values of different types, is false whatever they hold.
Equals(c, o) == FALSE

\* ConfigPairs.Less on two pairs.
Less(a, b) == compareConfigNames(a.Key, b.Key) < 0

\* sort.Sort(ConfigPairs(...)): below 7 elements an insertion sort, which
\* keeps the order of pairs with equal keys.
RECURSIVE InsertPair(_, _)
InsertPair(sorted, pair) ==
    IF sorted = <<>> THEN <<pair>>
    ELSE IF Less(pair, sorted[Len(sorted)])
         THEN Append(InsertPair(SubSeq(sorted, 1, Len(sorted) - 1), pair),
                     sorted[Len(sorted)])
         ELSE Append(sorted, pair)
RECURSIVE SortPairs(_)
SortPairs(ps) ==
    IF ps = <<>> THEN <<>>
    ELSE InsertPair(SortPairs(SubSeq(ps, 1, Len(ps) - 1)), ps[Len(ps)])

\* Configs.Init(fileComment, configVariables)
ConfigsInit(fileComment, configVariables) ==
    [FileComment |-> fileComment, ConfigVariables |-> configVariables,
     ByConfig |-> <<>>]

\* Configs.GetExactConfig(key)
GetExactConfig(c, key) ==
    IF \E i \in 1..Len(c.ByConfig) : Equals(c.ByConfig[i].Key, key)
    THEN LET i == CHOOSE j \in 1..Len(c.ByConfig) :
                     /\ Equals(c.ByConfig[j].Key, key)
                     /\ \A k \in 1..(j - 1) : ~Equals(c.ByConfig[k].Key, key)
         IN  [value |-> c.ByConfig[i].Value, found |-> TRUE]
    ELSE [value |-> EmptySettings, found |-> FALSE]

\* Configs.SetConfig(key, value): the pair is appended; the assertion that
\* the key is new passes as GetExactConfig finds nothing.
SetConfig(c, key, value) ==
    [c EXCEPT !.ByConfig = Append(@, [Key |-> key, Value |-> value])]

\* Configs.getConfigVarsUnion(rhs): both lists, sorted, duplicates dropped.
RECURSIVE Unique(_)
Unique(vs) ==
    IF Len(vs) <= 1 THEN vs
    ELSE LET u == Unique(SubSeq(vs, 1, Len(vs) - 1))
         IN  IF vs[Len(vs)] = u[Len(u)] THEN u ELSE Append(u, vs[Len(vs)])
getConfigVarsUnion(lhs, rhs) ==
    LET varSet == lhs.ConfigVariables \o rhs.ConfigVariables
        sorted == SortStrings([i \in 1..Len(varSet) |-> <<varSet[i]>>])
    IN  Unique([i \in 1..Len(sorted) |-> sorted[i][1]])

\* The mapping of expandConfigVariables from the slots of newConfigVars to
\* those of c.ConfigVariables, 0 where c has no such variable. oldVars is a
\* sorted sublist of newVars, so the code's third branch is never taken.
RECURSIVE Mapping(_, _, _)
Mapping(oldVars, newVars, i) ==
    IF newVars = <<>> THEN <<>>
    ELSE IF i > Len(oldVars) \/ StrLess(Head(newVars), oldVars[i])
         THEN <<0>> \o Mapping(oldVars, Tail(newVars), i)
         ELSE <<i>> \o Mapping(oldVars, Tail(newVars), i + 1)

\* A faulty variant of getNewConfigName: the old slots are copied in their
\* old positions.
getNewConfigNameByPosition(old, mapping) ==
    [i \in 1..Len(mapping) |-> IF i <= Len(old) THEN old[i] ELSE Unbound]

\* getNewConfigName of expandConfigVariables
getNewConfigName(old, mapping) ==
    [i \in 1..Len(mapping) |-> IF mapping[i] # 0 THEN old[mapping[i]] ELSE Unbound]

\* Configs.expandConfigVariables(newConfigVars)
expandConfigVariables(c, newConfigVars) ==
    LET mapping == Mapping(c.ConfigVariables, newConfigVars, 1)
    IN  [i \in 1..Len(c.ByConfig) |->
            [Key |-> getNewConfigName(c.ByConfig[i].Key, mapping),
             Value |-> c.ByConfig[i].Value]]

\* A faulty variant of the loop: of equal keys the last settings are kept.
RECURSIVE MergeKeepLast(_, _, _)
MergeKeepLast(res, last, rest) ==
    IF rest = <<>> THEN SetConfig(res, last.Key, last.Value)
    ELSE IF compareConfigNames(last.Key, Head(rest).Key) = 0
         THEN MergeKeepLast(res, Head(rest), Tail(rest))
         ELSE MergeKeepLast(SetConfig(res, last.Key, last.Value), Head(rest), Tail(rest))

\* The loop of Configs.Union over the sorted pairs: the settings of equal
\* keys are united from left to right, each key is set once.
RECURSIVE MergeEqualKeys(_, _, _)
MergeEqualKeys(res, last, rest) ==
    IF rest = <<>> THEN SetConfig(res, last.Key, last.Value)
    ELSE LET curr == Head(rest)
         IN  IF compareConfigNames(last.Key, curr.Key) = 0
             THEN MergeEqualKeys(res,
                      [last EXCEPT !.Value = ConfigSettingsUnion(@, curr.Value)],
                      Tail(rest))
             ELSE MergeEqualKeys(SetConfig(res, last.Key, last.Value), curr, Tail(rest))

\* out of Configs.Union before the pairs are set, and the realigned pairs
\* of both operands, those of lhs first.
UnionInit(lhs, rhs) ==
    ConfigsInit(IF lhs.FileComment = "" THEN rhs.FileComment ELSE lhs.FileComment,
                getConfigVarsUnion(lhs, rhs))
UnionAppended(lhs, rhs) ==
    expandConfigVariables(lhs, UnionInit(lhs, rhs).ConfigVariables)
    \o expandConfigVariables(rhs, UnionInit(lhs, rhs).ConfigVariables)

\* Configs.Union from sort.Sort(ByConfig) on, ByConfig being the slice as
\* the sort left it.
UnionOfSorted(res, ByConfig) ==
    IF Len(ByConfig) = 0 THEN res
    ELSE MergeEqualKeys(res, ByConfig[1], Tail(ByConfig))

\* lhs.Union(rhs) of Configs
ConfigsUnion(lhs, rhs) ==
    UnionOfSorted(UnionInit(lhs, rhs), SortPairs(UnionAppended(lhs, rhs)))

\* What sort.Sort may leave of a slice: it is "not guaranteed to be
\* stable", so any arrangement of the pairs in which no pair is before a
\* lesser one. (Short slices are sorted by insertion, which SortPairs is.)
SortResults(ps) ==
    LET n == Len(ps)
        perms == {f \in [1..n -> 1..n] : \A i, j \in 1..n : i # j => f[i] # f[j]}
    IN  {qs \in {[i \in 1..n |-> ps[f[i]]] : f \in perms} :
            \A i, j \in 1..n : i < j => ~Less(qs[j], qs[i])}

\* A faulty variant of the slot test: the slots differ only if both are
\* bound, to different values.
SlotDiffersBothBound(e, q) == e.IsBound /\ q.IsBound /\ e.Value # q.Value

\* The test of GetConfig on one slot: `pair.Key[i].IsBound && pair.Key[i] !=
\* confValueOfKey`, a comparison of the two structs.
SlotDiffers(e, q) == e.IsBound /\ e # q

\* A faulty variant of the inner loop: every entry matches.
KeyMatchesAny(key, configName) == TRUE

\* The inner loop of GetConfig: ok stays true.
KeyMatches(key, configName) ==
    \A i \in 1..Len(configName) : ~SlotDiffers(key[i], configName[i])

\* A faulty variant of the outer loop: the accumulator is the right operand.
RECURSIVE UnionMatchingAccumulatorRight(_, _, _)
UnionMatchingAccumulatorRight(res, pairs, configName) ==
    IF pairs = <<>> THEN res
    ELSE UnionMatchingAccumulatorRight(
             IF KeyMatches(Head(pairs).Key, configName)
             THEN ConfigSettingsUnion(Head(pairs).Value, res)
             ELSE res,
             Tail(pairs), configName)

\* The outer loop of GetConfig over the sorted pairs.
RECURSIVE UnionMatching(_, _, _)
UnionMatching(res, pairs, configName) ==
    IF pairs = <<>> THEN res
    ELSE UnionMatching(IF KeyMatches(Head(pairs).Key, configName)
                       THEN ConfigSettingsUnion(res, Head(pairs).Value)
                       ELSE res,
                       Tail(pairs), configName)

\* Configs.GetConfig(configName): the settings returned. ByConfig is left
\* sorted.
GetConfig(c, configName) ==
    UnionMatching(EmptySettings, SortPairs(c.ByConfig), configName)

\* A faulty variant of computeConfigName: it stops at the first variable
\* that is missing.
computeConfigNameFirstMissing(c, configVariables) ==
    LET IsMissing(variable) == variable \notin DOMAIN configVariables
        missingVars == SelectSeq(c.ConfigVariables, IsMissing)
    IN  IF Len(missingVars) > 0
        THEN [name |-> <<>>, err |-> "missing", missing |-> <<missingVars[1]>>]
        ELSE [name |-> [i \in 1..Len(c.ConfigVariables) |->
                           Bound(configVariables[c.ConfigVariables[i]])],
              err |-> "nil", missing |-> <<>>]

\* computeConfigName(isolate, configVariables): a slot bound to its value for
\* every variable of the Configs that the map holds; if some are missing, an
\* empty name and an error that lists them, sorted.
computeConfigName(c, configVariables) ==
    LET IsGiven(variable) == variable \in DOMAIN configVariables
        IsMissing(variable) == variable \notin DOMAIN configVariables
        given == SelectSeq(c.ConfigVariables, IsGiven)
        missingVars == SelectSeq(c.ConfigVariables, IsMissing)
        sorted == SortStrings([i \in 1..Len(missingVars) |-> <<missingVars[i]>>])
    IN  IF Len(missingVars) > 0
        THEN [name |-> <<>>, err |-> "missing",
              missing |-> [i \in 1..Len(sorted) |-> sorted[i][1]]]
        ELSE [name |-> [i \in 1..Len(given) |-> Bound(configVariables[given[i]])],
              err |-> "nil", missing |-> <<>>]

\* Most pairs in the ByConfig of the three Configs that are united, taken
\* together, and of the one Configs that is resolved alone.
MaxPairs == 3
MaxPairsGet == 2

\* Configuration variables and the values a key binds them to.
ValuesOf(variable) == IF variable = "OS" THEN {"linux", "mac"} ELSE {"64"}
VariableLists == {<<"OS">>, <<"bit">>, <<"OS", "bit">>}

\* The keys over a list of variables: each slot bound to a value or unbound.
KeysOver(variables) ==
    {key \in [1..Len(variables) -> {Unbound} \cup {Bound(v) : v \in {"linux", "mac", "64"}}] :
        \A i \in 1..Len(variables) :
            key[i].IsBound => key[i].Value \in ValuesOf(variables[i])}

\* Settings of a key: the empty object, two with a command, two without, one
\* of these in a directory below that of the others.
DirX == <<"/", "x">>
DirXY == <<"/", "x", "y">>
InputSettings ==
    {EmptySettings,
     ConfigSettingsInit(<<"run1">>, <<<<"f">>>>, ReadOnlyUnset, DirX),
     ConfigSettingsInit(<<"run2">>, <<>>, 0, DirX),
     ConfigSettingsInit(<<>>, <<<<"g">>, <<"<(X)", "f">>>>, 1, DirX),
     ConfigSettingsInit(<<>>, <<<<"h">>>>, ReadOnlyUnset, DirXY)}

\* The Configs over a list of variables with n pairs, no key twice (the
\* helper that loads an .isolate file builds ByConfig from a dict).
PairsOver(variables) == [Key : KeysOver(variables), Value : InputSettings]
ConfigsOver(variables, n) ==
    {[FileComment |-> "", ConfigVariables |-> variables, ByConfig |-> ps] :
        ps \in {qs \in [1..n -> PairsOver(variables)] :
                   \A i, j \in 1..n : i # j => qs[i].Key # qs[j].Key}}
LoadedConfigs(n) == ConfigsOver(<<"OS">>, n) \cup ConfigsOver(<<"bit">>, n)

\* The command line's configuration variables.
KeyVarsSet == [{"OS", "bit"} -> {"linux", "mac", "64"}]
KeyVars == {kv \in KeyVarsSet : \A v \in {"OS", "bit"} : kv[v] \in ValuesOf(v)}

\* A faulty variant of the sort in place: the first pair, if any, is lost.
AfterGetConfigDropsFirst(c) ==
    [c EXCEPT !.ByConfig = IF @ = <<>> THEN @ ELSE Tail(SortPairs(@))]

\* Configs.GetConfig sorts ByConfig in place.
AfterGetConfig(c) == [c EXCEPT !.ByConfig = SortPairs(@)]

InitCfg ==
    /\ InitPipeIdle
    /\ InitFnIdle
    /\ InitPrepIdle
    /\ InitUpIdle
    /\ InitMetaIdle
    /\ \E na, nb, nc \in 0..MaxPairs :
          /\ na + nb + nc <= MaxPairs
          /\ cfgA \in LoadedConfigs(na)
          /\ cfgB \in LoadedConfigs(nb)
          /\ cfgC \in LoadedConfigs(nc)
    /\ unionAB = <<>>
    /\ unionBA = <<>>
    /\ unionBC = <<>>
    /\ unionAB_C = <<>>
    /\ unionA_BC = <<>>
    /\ cfgPc = "inputs"
    /\ cfgQuery = <<>>
    /\ resolved = <<>>
    /\ getOut = <<>>

\* The unions of two of the Configs.
UnionPairs ==
    /\ cfgPc = "inputs"
    /\ unionAB' = ConfigsUnion(cfgA, cfgB)
    /\ unionBA' = ConfigsUnion(cfgB, cfgA)
    /\ unionBC' = ConfigsUnion(cfgB, cfgC)
    /\ cfgPc' = "pairs"
    /\ UNCHANGED <<cfgA, cfgB, cfgC, unionAB_C, unionA_BC, cfgQuery, resolved, getOut>>
    /\ UNCHANGED <<pipeVars, prepVars, upVars, metaVars, fnVars, callVars>>

\* The unions of all three, grouped from the left and from the right.
UnionTriples ==
    /\ cfgPc = "pairs"
    /\ unionAB_C' = ConfigsUnion(unionAB, cfgC)
    /\ unionA_BC' = ConfigsUnion(cfgA, unionBC)
    /\ cfgPc' = "triples"
    /\ UNCHANGED <<cfgA, cfgB, cfgC, unionAB, unionBA, unionBC, cfgQuery, resolved, getOut>>
    /\ UNCHANGED <<pipeVars, prepVars, upVars, metaVars, fnVars, callVars>>

\* Each union is resolved for the configuration variables kv, as
\* LoadIsolateForConfig does: computeConfigName, then GetConfig.
Resolve(kv) ==
    /\ cfgPc \in {"triples", "resolved"}
    /\ cfgQuery # kv
    /\ cfgQuery' = kv
    /\ resolved' = [AB   |-> GetConfig(unionAB, computeConfigName(unionAB, kv).name),
                    BA   |-> GetConfig(unionBA, computeConfigName(unionBA, kv).name),
                    AB_C |-> GetConfig(unionAB_C, computeConfigName(unionAB_C, kv).name),
                    A_BC |-> GetConfig(unionA_BC, computeConfigName(unionA_BC, kv).name)]
    /\ unionAB' = AfterGetConfig(unionAB)
    /\ unionBA' = AfterGetConfig(unionBA)
    /\ unionAB_C' = AfterGetConfig(unionAB_C)
    /\ unionA_BC' = AfterGetConfig(unionA_BC)
    /\ cfgPc' = "resolved"
    /\ UNCHANGED <<cfgA, cfgB, cfgC, unionBC, getOut>>
    /\ UNCHANGED <<pipeVars, prepVars, upVars, metaVars, fnVars, callVars>>

NextCfg ==
    \/ UnionPairs
    \/ UnionTriples
    \/ \E kv \in KeyVars : Resolve(kv)

SpecCfg == InitCfg /\ [][NextCfg]_vars

InitGet ==
    /\ InitPipeIdle
    /\ InitFnIdle
    /\ InitPrepIdle
    /\ InitUpIdle
    /\ InitMetaIdle
    /\ \E n \in 0..MaxPairsGet, variables \in VariableLists :
          cfgA \in ConfigsOver(variables, n)
    /\ cfgB = <<>>
    /\ cfgC = <<>>
    /\ unionAB = <<>>
    /\ unionBA = <<>>
    /\ unionBC = <<>>
    /\ unionAB_C = <<>>
    /\ unionA_BC = <<>>
    /\ cfgPc = "inputs"
    /\ cfgQuery = <<>>
    /\ resolved = <<>>
    /\ getOut = <<>>

\* cfgA.GetConfig(configName), for a ConfigName over the variables of cfgA.
GetConfigCall(configName) ==
    /\ cfgPc = "inputs"
    /\ getOut' = GetConfig(cfgA, configName)
    /\ cfgA' = AfterGetConfig(cfgA)
    /\ cfgQuery' = configName
    /\ cfgPc' = "got"
    /\ cfgBefore' = <<cfgA>>
    /\ UNCHANGED <<cfgB, cfgC, unionAB, unionBA, unionBC, unionAB_C, unionA_BC, resolved>>
    /\ UNCHANGED <<argsIn, argsOut, exactOut, getAgain>>
    /\ UNCHANGED <<pipeVars, prepVars, upVars, metaVars, fnVars>>

\* cfgA.GetConfig(configName) once more, with the same ConfigName.
GetConfigAgain ==
    /\ cfgPc = "got"
    /\ getAgain' = <<GetConfig(cfgA, cfgQuery)>>
    /\ cfgA' = AfterGetConfig(cfgA)
    /\ cfgPc' = "again"
    /\ UNCHANGED <<cfgB, cfgC, unionAB, unionBA, unionBC, unionAB_C, unionA_BC, resolved,
                   cfgQuery, getOut>>
    /\ UNCHANGED <<argsIn, argsOut, exactOut, cfgBefore>>
    /\ UNCHANGED <<pipeVars, prepVars, upVars, metaVars, fnVars>>

\* cfgA.GetExactConfig(key), for a ConfigName over the variables of cfgA.
GetExactConfigCall(key) ==
    /\ cfgPc = "inputs"
    /\ exactOut' = <<GetExactConfig(cfgA, key)>>
    /\ cfgQuery' = key
    /\ cfgPc' = "exact"
    /\ UNCHANGED <<cfgA, cfgB, cfgC, unionAB, unionBA, unionBC, unionAB_C, unionA_BC,
                   resolved, getOut>>
    /\ UNCHANGED <<argsIn, argsOut, cfgBefore, getAgain>>
    /\ UNCHANGED <<pipeVars, prepVars, upVars, metaVars, fnVars>>

NextGet ==
    \/ \E configName \in KeysOver(cfgA.ConfigVariables) : GetConfigCall(configName)
    \/ GetConfigAgain
    \/ \E key \in KeysOver(cfgA.ConfigVariables) : GetExactConfigCall(key)

SpecGet == InitGet /\ [][NextGet]_vars

\* ---- compareConfigNames on its own

\* The slots of a ConfigName: bound to a value, the zero value, and a slot
\* whose IsBound is false while Value is set.
NameLen == 2
Slots == {Unbound, [Value |-> "mac", IsBound |-> FALSE]}
             \cup {Bound(v) : v \in {"linux", "mac", "64"}}
ConfigNames == [1..NameLen -> Slots]

InitCmp ==
    /\ InitPipeIdle
    /\ InitPrepIdle
    /\ InitUpIdle
    /\ InitMetaIdle
    /\ InitCfgIdle
    /\ cmpIn \in [a : ConfigNames, b : ConfigNames, c : ConfigNames]
    /\ cmpOut = <<>>
    /\ setL = <<>>
    /\ setR = <<>>
    /\ setOut = <<>>
    /\ declared = <<>>
    /\ supplied = <<>>
    /\ nameOut = <<>>
    /\ expVars = <<>>
    /\ expanded = <<>>
    /\ InitCallIdle

\* The three names are compared with each other.
Compare ==
    /\ cmpOut = <<>>
    /\ cmpOut' = [ab |-> compareConfigNames(cmpIn.a, cmpIn.b),
                  ba |-> compareConfigNames(cmpIn.b, cmpIn.a),
                  bc |-> compareConfigNames(cmpIn.b, cmpIn.c),
                  ac |-> compareConfigNames(cmpIn.a, cmpIn.c)]
    /\ UNCHANGED <<cmpIn, setL, setR, setOut, declared, supplied, nameOut, expVars, expanded>>
    /\ UNCHANGED callVars
    /\ UNCHANGED <<pipeVars, prepVars, upVars, metaVars, cfgVars>>

NextCmp == Compare

SpecCmp == InitCmp /\ [][NextCmp]_vars

\* ---- ConfigSettings.Init and ConfigSettings.Union on their own

\* The ParsedIsolate values Init is called with: a command or none, files in
\* any order, read_only set or not. With isolateDir "" Init asserts that
\* there is neither a command nor a file; IsEmpty does not look at ReadOnly.
ParsedFiles ==
    {<<>>, <<<<"f">>>>, <<<<"g">>, <<"f">>>>, <<<<"f">>, <<"<(X)", "f">>>>}
InitializedSettings ==
    {ConfigSettingsInit(command, files, readOnly, dir) :
        command \in {<<>>, <<"run1">>, <<"run2">>}, files \in ParsedFiles,
        readOnly \in {ReadOnlyUnset, 0, 1}, dir \in {DirX, DirXY}}
    \cup {ConfigSettingsInit(<<>>, <<>>, readOnly, <<>>) : readOnly \in {ReadOnlyUnset, 0, 1}}

InitSettings ==
    /\ InitPipeIdle
    /\ InitPrepIdle
    /\ InitUpIdle
    /\ InitMetaIdle
    /\ InitCfgIdle
    /\ cmpIn = <<>>
    /\ cmpOut = <<>>
    /\ setL \in InitializedSettings
    /\ setR \in InitializedSettings
    /\ setOut = <<>>
    /\ declared = <<>>
    /\ supplied = <<>>
    /\ nameOut = <<>>
    /\ expVars = <<>>
    /\ expanded = <<>>
    /\ InitCallIdle

\* A faulty variant of the array of files: it is that of lFiles.
FilesArrayOfLFiles(useRhs) == IF useRhs THEN "rhs.Files" ELSE "lhs.Files"

\* The array that the slice `files` of ConfigSettings.Union points to:
\* `make` gives it one of its own.
FilesArray(useRhs) == "files"

\* The arrays of strings after lhs.Union(rhs): those behind lhs.Files and
\* rhs.Files, and the one made by the call. The call writes by
\* `files[i+len(lFiles)] = f`, by sort.Strings(files) and, in Init, by
\* sort.Strings(c.Files) on the same array; it does not write if one side is
\* the empty object.
UnionArrays(lhs, rhs) ==
    LET before == [a \in {"lhs.Files", "rhs.Files", "files"} |->
                      IF a = "lhs.Files" THEN lhs.Files
                      ELSE IF a = "rhs.Files" THEN rhs.Files
                      ELSE <<>>]
    IN  IF lhs.IsolateDir = <<>> \/ rhs.IsolateDir = <<>> THEN before
        ELSE [before EXCEPT ![FilesArray(UseRhs(lhs, rhs))] =
                                ConfigSettingsUnion(lhs, rhs).Files]

\* setL.Union(setR); setL and setR are then what their arrays hold.
SettingsUnion ==
    /\ setOut = <<>>
    /\ setOut' = <<ConfigSettingsUnion(setL, setR)>>
    /\ setL' = [setL EXCEPT !.Files = UnionArrays(setL, setR)["lhs.Files"]]
    /\ setR' = [setR EXCEPT !.Files = UnionArrays(setL, setR)["rhs.Files"]]
    /\ UNCHANGED <<cmpIn, cmpOut, declared, supplied, nameOut, expVars, expanded>>
    /\ UNCHANGED callVars
    /\ UNCHANGED <<pipeVars, prepVars, upVars, metaVars, cfgVars>>

NextSettings == SettingsUnion

SpecSettings == InitSettings /\ [][NextSettings]_vars

\* ---- SetConfig and Configs.Union, from the Configs Init leaves

\* Pairs in the ByConfig of both Configs together.
MaxSetPairs == 2

InitSet ==
    /\ InitPipeIdle
    /\ InitPrepIdle
    /\ InitUpIdle
    /\ InitMetaIdle
    /\ InitFnIdle
    /\ \E va, vb \in VariableLists :
          /\ cfgA = ConfigsInit("", va)
          /\ cfgB = ConfigsInit("", vb)
    /\ cfgC = <<>>
    /\ unionAB = <<>>
    /\ unionBA = <<>>
    /\ unionBC = <<>>
    /\ unionAB_C = <<>>
    /\ unionA_BC = <<>>
    /\ cfgPc = "set"
    /\ cfgQuery = <<>>
    /\ resolved = <<>>
    /\ getOut = <<>>

\* c.SetConfig(key, value) with a key as long as c.ConfigVariables, on cfgA
\* or on cfgB: a key that GetExactConfig finds fails the assertion.
SetConfigCall(onA, key, value) ==
    /\ cfgPc \in {"set", "united"}
    /\ Len(cfgA.ByConfig) + Len(cfgB.ByConfig) < MaxSetPairs
    /\ LET c == IF onA THEN cfgA ELSE cfgB
       IN  /\ Len(key) = Len(c.ConfigVariables)
           /\ IF GetExactConfig(c, key).found
              THEN /\ cfgPc' = "panic"
                   /\ UNCHANGED <<cfgA, cfgB>>
              ELSE /\ cfgA' = IF onA THEN SetConfig(c, key, value) ELSE cfgA
                   /\ cfgB' = IF onA THEN cfgB ELSE SetConfig(c, key, value)
                   /\ UNCHANGED cfgPc
    /\ UNCHANGED <<cfgC, unionAB, unionBA, unionBC, unionAB_C, unionA_BC, cfgQuery,
                   resolved, getOut>>
    /\ UNCHANGED <<pipeVars, prepVars, upVars, metaVars, fnVars, callVars>>

\* cfgA becomes cfgA.Union(cfgB).
UnionCall ==
    /\ cfgPc = "set"
    /\ cfgA' = ConfigsUnion(cfgA, cfgB)
    /\ cfgPc' = "united"
    /\ UNCHANGED <<cfgB, cfgC, unionAB, unionBA, unionBC, unionAB_C, unionA_BC, cfgQuery,
                   resolved, getOut>>
    /\ UNCHANGED <<pipeVars, prepVars, upVars, metaVars, fnVars, callVars>>

NextSet ==
    \/ \E onA \in BOOLEAN, variables \in VariableLists :
          \E key \in KeysOver(variables), value \in InputSettings :
             SetConfigCall(onA, key, value)
    \/ UnionCall

SpecSet == InitSet /\ [][NextSet]_vars

\* ---- computeConfigName on its own

\* The ConfigVariables of the Configs (Configs.Init takes any list), and the
\* maps the command line can give: any of the two variables and one that no
\* .isolate file declares.
DeclaredLists == {<<>>, <<"OS">>, <<"bit">>, <<"OS", "bit">>, <<"bit", "OS">>}
SuppliedMaps ==
    UNION {[D -> {"linux", "mac", "64"}] : D \in SUBSET {"OS", "bit", "chromeos"}}

InitName ==
    /\ InitPipeIdle
    /\ InitPrepIdle
    /\ InitUpIdle
    /\ InitMetaIdle
    /\ InitCfgIdle
    /\ cmpIn = <<>>
    /\ cmpOut = <<>>
    /\ setL = <<>>
    /\ setR = <<>>
    /\ setOut = <<>>
    /\ declared \in DeclaredLists
    /\ supplied \in SuppliedMaps
    /\ nameOut = <<>>
    /\ expVars = <<>>
    /\ expanded = <<>>
    /\ InitCallIdle

\* computeConfigName(isolate, configVariables) for a Configs with the
\* declared variables.
ComputeName ==
    /\ nameOut = <<>>
    /\ nameOut' = <<computeConfigName(ConfigsInit("", declared), supplied)>>
    /\ UNCHANGED <<cmpIn, cmpOut, setL, setR, setOut, declared, supplied, expVars, expanded>>
    /\ UNCHANGED callVars
    /\ UNCHANGED <<pipeVars, prepVars, upVars, metaVars, cfgVars>>

NextName == ComputeName

SpecName == InitName /\ [][NextName]_vars

\* ---- expandConfigVariables on its own

\* Sorted lists of variables without duplicates, and the keys over them.
SortedVariableLists ==
    {<<>>, <<"OS">>, <<"bit">>, <<"x">>, <<"OS", "bit">>, <<"OS", "x">>, <<"bit", "x">>,
     <<"OS", "bit", "x">>}
VariablesOf(variables) == {variables[i] : i \in 1..Len(variables)}

InitExpand ==
    /\ InitPipeIdle
    /\ InitPrepIdle
    /\ InitUpIdle
    /\ InitMetaIdle
    /\ \E variables \in SortedVariableLists, n \in 0..MaxPairsGet :
          cfgA \in ConfigsOver(variables, n)
    /\ cfgB = <<>>
    /\ cfgC = <<>>
    /\ unionAB = <<>>
    /\ unionBA = <<>>
    /\ unionBC = <<>>
    /\ unionAB_C = <<>>
    /\ unionA_BC = <<>>
    /\ cfgPc = "expand"
    /\ cfgQuery = <<>>
    /\ resolved = <<>>
    /\ getOut = <<>>
    /\ cmpIn = <<>>
    /\ cmpOut = <<>>
    /\ setL = <<>>
    /\ setR = <<>>
    /\ setOut = <<>>
    /\ declared = <<>>
    /\ supplied = <<>>
    /\ nameOut = <<>>
    /\ expVars \in {vs \in SortedVariableLists :
                      VariablesOf(cfgA.ConfigVariables) \subseteq VariablesOf(vs)}
    /\ expanded = <<>>
    /\ InitCallIdle

\* cfgA.expandConfigVariables(expVars)
Expand ==
    /\ cfgPc = "expand"
    /\ expanded = <<>>
    /\ expanded' = <<expandConfigVariables(cfgA, expVars)>>
    /\ UNCHANGED <<cmpIn, cmpOut, setL, setR, setOut, declared, supplied, nameOut, expVars>>
    /\ UNCHANGED callVars
    /\ UNCHANGED <<pipeVars, prepVars, upVars, metaVars, cfgVars>>

NextExpand == Expand

SpecExpand == InitExpand /\ [][NextExpand]_vars

\* ---- convertPyToGoArchiveCMDArgs (batch_archive.go 87-114)

\* Longest argument list.
MaxArgs == 4

\* An argument is the sequence of its parts; "=" is a part of its own.
\* strings.Contains(arg, "=")
ContainsEquals(arg) == \E k \in 1..Len(arg) : arg[k] = "="

\* fmt.Sprintf("%s=%s", key, value)
SprintfKeyValue(key, value) == key \o <<"=">> \o value

\* The keys of the map kvars, as the source spells them.
kvars == {<<"--path-variable">>, <<"--config-variable">>, <<"--extra-vriable">>}

\* The loop of convertPyToGoArchiveCMDArgs from index i on, for a set of
\* key-value flags.
RECURSIVE convertFrom(_, _, _, _)
convertFrom(flags, args, i, newArgs) ==
    IF i > Len(args) THEN newArgs
    ELSE LET kvar == args[i]
             withFlag == Append(newArgs, kvar)
         IN  IF kvar \notin flags THEN convertFrom(flags, args, i + 1, withFlag)
             ELSE IF i + 1 > Len(args) THEN withFlag
             ELSE LET appendArg == args[i + 1]
                  IN  IF ~ContainsEquals(appendArg) /\ i + 2 <= Len(args)
                      THEN convertFrom(flags, args, i + 3,
                                       Append(withFlag,
                                              SprintfKeyValue(appendArg, args[i + 2])))
                      ELSE convertFrom(flags, args, i + 2, Append(withFlag, appendArg))

convertPyToGoArchiveCMDArgs(args) == convertFrom(kvars, args, 1, <<>>)

\* Arguments of the archive command: the three key-value flags, another
\* flag, a word and a key=value.
ArgWords ==
    {<<"--path-variable">>, <<"--config-variable">>, <<"--extra-variable">>,
     <<"--isolate">>, <<"k">>, <<"k", "=", "v">>}
ArgLists == UNION {[1..n -> ArgWords] : n \in 0..MaxArgs}

InitArgs ==
    /\ InitPipeIdle
    /\ InitPrepIdle
    /\ InitUpIdle
    /\ InitMetaIdle
    /\ InitCfgIdle
    /\ cmpIn = <<>>
    /\ cmpOut = <<>>
    /\ setL = <<>>
    /\ setR = <<>>
    /\ setOut = <<>>
    /\ declared = <<>>
    /\ supplied = <<>>
    /\ nameOut = <<>>
    /\ expVars = <<>>
    /\ expanded = <<>>
    /\ argsIn \in ArgLists
    /\ argsOut = <<>>
    /\ exactOut = <<>>
    /\ cfgBefore = <<>>
    /\ getAgain = <<>>

\* parseArchiveCMD: args = convertPyToGoArchiveCMDArgs(args)
ConvertArgs ==
    /\ argsOut = <<>>
    /\ argsOut' = <<convertPyToGoArchiveCMDArgs(argsIn)>>
    /\ UNCHANGED <<argsIn, exactOut, cfgBefore, getAgain>>
    /\ UNCHANGED <<pipeVars, prepVars, upVars, metaVars, cfgVars, fnVars>>

NextArgs == ConvertArgs

SpecArgs == InitArgs /\ [][NextArgs]_vars

\* ---- Configs.Union with a sort that need not be stable

InitUnionSort ==
    /\ InitPipeIdle
    /\ InitFnIdle
    /\ InitPrepIdle
    /\ InitUpIdle
    /\ InitMetaIdle
    /\ \E na, nb \in 0..MaxPairs :
          /\ na + nb <= MaxPairs
          /\ cfgA \in LoadedConfigs(na)
          /\ cfgB \in LoadedConfigs(nb)
    /\ cfgC = <<>>
    /\ unionAB = <<>>
    /\ unionBA = <<>>
    /\ unionBC = <<>>
    /\ unionAB_C = <<>>
    /\ unionA_BC = <<>>
    /\ cfgPc = "inputs"
    /\ cfgQuery = <<>>
    /\ resolved = <<>>
    /\ getOut = <<>>

\* cfgA.Union(cfgB), sort.Sort leaving the pairs as `sorted`.
UnionSorted(sorted) ==
    /\ cfgPc = "inputs"
    /\ unionAB' = UnionOfSorted(UnionInit(cfgA, cfgB), sorted)
    /\ cfgPc' = "pairs"
    /\ UNCHANGED <<cfgA, cfgB, cfgC, unionBA, unionBC, unionAB_C, unionA_BC, cfgQuery,
                   resolved, getOut>>
    /\ UNCHANGED <<pipeVars, prepVars, upVars, metaVars, fnVars, callVars>>

NextUnionSort == \E sorted \in SortResults(UnionAppended(cfgA, cfgB)) : UnionSorted(sorted)

SpecUnionSort == InitUnionSort /\ [][NextUnionSort]_vars

\* ------------------------------------------------------------------ claims

\* A non-nil error was sent on the channel.
ErrDelivered(ch) == ch.buf # <<>> /\ Head(ch.buf) # "nil"

\* C1: errors from any stage win over a success signal: when the gen-file
\* stage or the isolate stage has delivered a non-nil error, main does not
\* return nil.
C1_ErrorsWinOverSuccess ==
    (mainPc = "done" /\ (ErrDelivered(chGenErrors) \/ ErrDelivered(chIsoErrors)))
        => mainResult # "nil"

\* C2: main returns nil only after it has received the archive stage's
\* success and the isolate stage's map (written to the --dump-json file when
\* the flag is set); a nil from the gen-file stage alone never ends the run.
C2_NilOnlyAfterArchiveAndHashes ==
    (mainPc = "done" /\ mainResult = "nil")
        => /\ "archive" \in received
           /\ "hashes" \in received
           /\ (dumpJson => written # <<>>)

\* The trees received by IsolateAsync have pairwise distinct target names.
DistinctTargets ==
    \A i, j \in 1..Len(treesIn) :
        i # j => TargetName(treesIn[i]) # TargetName(treesIn[j])

\* C9: when no tree fails and the target names are distinct, the map that
\* IsolateAsync delivers has exactly one entry per input tree, under that
\* tree's own target name and with that tree's digest.
C9_OneEntryPerTree ==
    (chIsolateHashes.buf # <<>> /\ DistinctTargets)
        => LET mp == Head(chIsolateHashes.buf)
           IN  /\ DOMAIN mp.m = {TargetName(treesIn[i]) : i \in 1..Len(treesIn)}
               /\ \A i \in 1..Len(treesIn) :
                      mp.m[TargetName(treesIn[i])] = isolateTree(treesIn[i]).hashes[1]

\* C10: once the user's interrupt is raised while main waits on its stages,
\* main returns the interruption error, and parseGenFiles schedules no
\* further parse task.
C10_InterruptEndsRun ==
    /\ (mainPc = "done" /\ intrAt \in {"select", "hashes"})
           => mainResult \in {"interrupted", "genInterrupted"}
    /\ ~schedAfterIntr

\* The items received from chOut and the one being offered on it.
Offered == emitted \o prepItem

\* C3: prepareItemsForUpload emits at most one UploadItem per full path.
C3_AtMostOncePerPath ==
    \A i, j \in 1..Len(Offered) : i # j => Offered[i].Path # Offered[j].Path

\* Two FileAssets of the same regular file were given, and all were handled.
C3_Witness ==
    /\ prepPc = "done"
    /\ faQueue = <<>>
    /\ emitted # <<>>
    /\ \E i, j \in 1..Len(assetsIn) :
          /\ i < j
          /\ assetsIn[i].fullPath = assetsIn[j].fullPath
          /\ ~IsSymlink(assetsIn[i])
          /\ ~IsSymlink(assetsIn[j])

C8_ReuseOnlyIfStatUnchanged ==
    (out.err = "nil" /\ ~ranStat.isLink /\ ~out.hashed)
        => /\ ranPrevStat.mtime = ranStat.mtime
           /\ ranPrevStat.size = ranStat.size

Realigned(c) == expandConfigVariables(c, unionAB_C.ConfigVariables)

\* Two settings do not compete: one is the empty object, or they have one
\* IsolateDir, no two different commands and no two different read_only.
Compatible(a, b) ==
    \/ a.IsolateDir = <<>>
    \/ b.IsolateDir = <<>>
    \/ /\ a.IsolateDir = b.IsolateDir
       /\ (a.Command = b.Command \/ a.Command = <<>> \/ b.Command = <<>>)
       /\ \/ a.ReadOnly = b.ReadOnly
          \/ a.ReadOnly = ReadOnlyUnset
          \/ b.ReadOnly = ReadOnlyUnset

\* No ConfigName has settings in c1 and in c2 that compete.
NoConflict(c1, c2) ==
    \A i \in 1..Len(c1.ByConfig), j \in 1..Len(c2.ByConfig) :
        Realigned(c1)[i].Key = Realigned(c2)[j].Key
            => Compatible(c1.ByConfig[i].Value, c2.ByConfig[j].Value)

RECURSIVE UnionOf(_, _)
UnionOf(acc, pairs) ==
    IF pairs = <<>> THEN acc
    ELSE UnionOf(ConfigSettingsUnion(acc, Head(pairs).Value), Tail(pairs))

\* The key agrees with the query wherever both are bound.
AgreesWhereBothBound(key, q) ==
    \A i \in 1..Len(q) : (key[i].IsBound /\ q[i].IsBound) => key[i].Value = q[i].Value

\* Wherever the key is bound, the query is bound to the same value.
AgreesWhereKeyBound(key, q) ==
    \A i \in 1..Len(q) : key[i].IsBound => (q[i].IsBound /\ q[i].Value = key[i].Value)

\* C7 as stated: GetConfig(q) is the union, in the order of
\* compareConfigNames, of the entries whose key agrees with q wherever both
\* are bound (the empty settings if there is none).
C7_UnionOfEntriesAgreeingWhereBothBound ==
    cfgPc = "got"
        => LET Agrees(e) == AgreesWhereBothBound(e.Key, cfgQuery)
           IN  getOut = UnionOf(EmptySettings, SelectSeq(SortPairs(cfgA.ByConfig), Agrees))

\* C7 (amended): GetConfig(q) is the union, in the order of
\* compareConfigNames, of the entries whose key is, wherever it is bound,
\* bound in q to the same value: an entry bound at a slot where q is unbound
\* does not match (the empty settings if no entry matches).
C7_UnionOfEntriesBoundAsQuery ==
    cfgPc = "got"
        => LET Agrees(e) == AgreesWhereKeyBound(e.Key, cfgQuery)
           IN  getOut = UnionOf(EmptySettings, SelectSeq(SortPairs(cfgA.ByConfig), Agrees))

\* GetConfig ran on two entries with settings, one bound where the query is
\* unbound and one that matches the query.
C7_Witness ==
    /\ cfgPc = "got"
    /\ Len(cfgA.ByConfig) = 2
    /\ getOut # EmptySettings
    /\ \E i, j \in 1..2 :
          /\ cfgA.ByConfig[i].Value.IsolateDir # <<>>
          /\ \E n \in 1..Len(cfgQuery) :
                cfgA.ByConfig[i].Key[n].IsBound /\ ~cfgQuery[n].IsBound
          /\ cfgA.ByConfig[j].Value.IsolateDir # <<>>
          /\ AgreesWhereKeyBound(cfgA.ByConfig[j].Key, cfgQuery)

\* The goroutines of parseGenFiles and IsolateAsync have returned and their
\* channels are closed.
PipelineReturned ==
    /\ genPc = "done"
    /\ \A i \in GenIds : taskPc[i] \in {"idle", "done"}
    /\ treesClosed
    /\ chGenErrors.closed
    /\ spawnPc = "done"
    /\ \A i \in GenIds : workerPc[i] \in {"idle", "done"}
    /\ resultsClosed
    /\ faClosed
    /\ collPc = "done"
    /\ chIsolateHashes.closed
    /\ chIsoErrors.closed

\* The goroutine of prepareItemsForUpload has returned, chOut is closed.
DedupReturned == prepPc = "done" /\ outClosed

SameSlot(l, r) ==
    \/ l.IsBound /\ r.IsBound /\ l.Value = r.Value
    \/ ~l.IsBound /\ ~r.IsBound

\* The first slot where the names differ, 0 if there is none.
FirstDiff(a, b) ==
    LET diff == {i \in 1..Len(a) : ~SameSlot(a[i], b[i])}
    IN  IF diff = {} THEN 0 ELSE CHOOSE i \in diff : \A j \in diff : i <= j

\* What the first differing slot says: bound before unbound, two bound
\* slots by value.
OrderAtFirstDiff(a, b) ==
    LET k == FirstDiff(a, b)
    IN  IF k = 0 THEN 0
        ELSE IF a[k].IsBound /\ ~b[k].IsBound THEN -1
        ELSE IF ~a[k].IsBound /\ b[k].IsBound THEN 1
        ELSE IF StrLess(a[k].Value, b[k].Value) THEN -1 ELSE 1

\* C12: compareConfigNames on names of one length is a total order:
\* compare(a,b) = -compare(b,a), it is transitive, it is 0 exactly when
\* every slot is bound to the same value on both sides or unbound on both,
\* and the first differing slot decides, bound before unbound and two bound
\* slots by value.
C12_CompareIsTotalOrder ==
    cmpOut # <<>> =>
        /\ cmpOut.ab = -cmpOut.ba
        /\ (cmpOut.ab <= 0 /\ cmpOut.bc <= 0) => cmpOut.ac <= 0
        /\ (cmpOut.ab <= 0 /\ cmpOut.bc < 0) => cmpOut.ac < 0
        /\ (cmpOut.ab < 0 /\ cmpOut.bc <= 0) => cmpOut.ac < 0
        /\ cmpOut.ab = 0 <=> FirstDiff(cmpIn.a, cmpIn.b) = 0
        /\ cmpOut.ab = OrderAtFirstDiff(cmpIn.a, cmpIn.b)

\* Names that agree in the first slot and are decided by the second: a bound
\* before b unbound, and b before c by the first slot.
C12_Witness ==
    /\ cmpOut # <<>>
    /\ FirstDiff(cmpIn.a, cmpIn.b) = 2
    /\ cmpIn.a[2].IsBound
    /\ ~cmpIn.b[2].IsBound
    /\ cmpOut.ab = -1
    /\ cmpOut.bc = -1
    /\ cmpOut.ac = -1

\* The empty object: a ConfigSettings whose IsolateDir is "".
IsEmptyObject(s) == s.IsolateDir = <<>>

\* C13 as stated: the union of s with an empty object, on either side, is s
\* with all four fields unchanged, for every s.
C13_UnionIdentity ==
    setOut # <<>> =>
        /\ IsEmptyObject(setL) => setOut[1] = setR
        /\ IsEmptyObject(setR) => setOut[1] = setL

\* C13: Union(empty, s) is s for every s, and Union(s, empty) is s for
\* every s that is not itself an empty object; of two empty objects the
\* union is the right one.
C13_UnionIdentityOfNonEmpty ==
    setOut # <<>> =>
        /\ IsEmptyObject(setL) => setOut[1] = setR
        /\ (IsEmptyObject(setR) /\ ~IsEmptyObject(setL)) => setOut[1] = setL

\* Settings with files, a command and read_only set were united with an
\* empty object on the right.
C13_Witness ==
    /\ setOut # <<>>
    /\ IsEmptyObject(setR)
    /\ ~IsEmptyObject(setL)
    /\ setL.Files # <<>>
    /\ setL.Command # <<>>
    /\ setL.ReadOnly = 1
    /\ setR.ReadOnly = 0
    /\ setOut[1] = setL

\* Both Configs are over the one variable OS with every entry bound; lhs has
\* an entry bound to v1, rhs has an entry bound to another value and none
\* bound to v1.
OneBoundToOtherBoundTo(lhs, rhs, v1) ==
    /\ lhs.ConfigVariables = <<"OS">>
    /\ rhs.ConfigVariables = <<"OS">>
    /\ \A i \in 1..Len(lhs.ByConfig) : lhs.ByConfig[i].Key[1].IsBound
    /\ \A i \in 1..Len(rhs.ByConfig) :
          rhs.ByConfig[i].Key[1].IsBound /\ rhs.ByConfig[i].Key[1].Value # v1
    /\ \E i \in 1..Len(lhs.ByConfig) : lhs.ByConfig[i].Key[1].Value = v1
    /\ rhs.ByConfig # <<>>

\* The settings of the entry of c bound to v.
EntryBoundTo(c, v) ==
    c.ByConfig[CHOOSE i \in 1..Len(c.ByConfig) : c.ByConfig[i].Key[1] = Bound(v)].Value

\* C14: of two Configs over one variable, one with an entry bound to v1 and
\* the other with an entry bound to another value v2, the union resolved for
\* v1 has the files and the command of the v1 entry and nothing of the v2
\* entry, whichever side the v1 entry comes from.
C14_ResolveTakesOnlyMatchingEntry ==
    cfgPc = "resolved" =>
        /\ OneBoundToOtherBoundTo(cfgA, cfgB, cfgQuery["OS"]) =>
              /\ resolved.AB.Files = EntryBoundTo(cfgA, cfgQuery["OS"]).Files
              /\ resolved.AB.Command = EntryBoundTo(cfgA, cfgQuery["OS"]).Command
        /\ OneBoundToOtherBoundTo(cfgB, cfgA, cfgQuery["OS"]) =>
              /\ resolved.AB.Files = EntryBoundTo(cfgB, cfgQuery["OS"]).Files
              /\ resolved.AB.Command = EntryBoundTo(cfgB, cfgQuery["OS"]).Command

\* OS=linux with a file and a command, OS=mac with another file, resolved
\* for linux.
C14_Witness ==
    /\ cfgPc = "resolved"
    /\ cfgQuery["OS"] = "linux"
    /\ OneBoundToOtherBoundTo(cfgA, cfgB, "linux")
    /\ EntryBoundTo(cfgA, "linux").Files = <<<<"f">>>>
    /\ EntryBoundTo(cfgA, "linux").Command = <<"run1">>
    /\ \E i \in 1..Len(cfgB.ByConfig) :
          /\ cfgB.ByConfig[i].Key[1] = Bound("mac")
          /\ cfgB.ByConfig[i].Value.Files = <<<<"h">>>>
    /\ resolved.AB.Files = <<<<"f">>>>
    /\ resolved.AB.Command = <<"run1">>

\* Every key of c is as long as c.ConfigVariables and no key is held twice.
KeysWellFormed(c) ==
    /\ \A i \in 1..Len(c.ByConfig) : Len(c.ByConfig[i].Key) = Len(c.ConfigVariables)
    /\ \A i, j \in 1..Len(c.ByConfig) :
          i # j => c.ByConfig[i].Key # c.ByConfig[j].Key

\* C15: after any sequence of SetConfig and Configs.Union from Init, every
\* ConfigName in ByConfig has the length of ConfigVariables and no two
\* entries have equal ConfigNames: a SetConfig with a key already present
\* gives no second entry for it.
C15_KeysUniqueFullLength ==
    cfgPc \in {"set", "united", "panic"} => KeysWellFormed(cfgA) /\ KeysWellFormed(cfgB)

\* A list of paths is in ascending order with no path twice.
SortedNoDuplicate(fs) == \A i \in 1..(Len(fs) - 1) : PathLess(fs[i], fs[i + 1])

\* C16: the Files of every ConfigSettings that Init or Union produces are
\* sorted ascending and hold no path twice, also when both sides of a union
\* list the same file.
C16_FilesSortedNoDuplicate ==
    /\ setL # <<>> => SortedNoDuplicate(setL.Files) /\ SortedNoDuplicate(setR.Files)
    /\ setOut # <<>> => SortedNoDuplicate(setOut[1].Files)

\* The last call was on a regular file, with the record of an earlier call
\* on it as prev, the file as large and as old as it was at the earlier call.
RoundTripUnchangedStat ==
    /\ ~ranStat.isLink
    /\ ranPrevStat # NoStat
    /\ ~ranPrevStat.isLink
    /\ ranPrevStat.mtime = ranStat.mtime
    /\ ranPrevStat.size = ranStat.size

\* C17: FileToMetadata on a regular file, given the record of a previous
\* call as prev while the file's mtime and size are unchanged, returns the
\* hash of prev and does not run HashFile, whatever the content is now.
C17_RoundTripReusesHash ==
    (out.err # "none" /\ RoundTripUnchangedStat)
        => /\ out.err = "nil"
           /\ ~out.hashed
           /\ out.meta.h = ranPrev.h

\* The content was rewritten with the same size and mtime between the two
\* calls, and the second call returned the hash of the old content.
C17_Witness ==
    /\ out.err = "nil"
    /\ RoundTripUnchangedStat
    /\ Stat(file) = ranStat
    /\ file.content = "c2"
    /\ ranPrev.h = "h1"
    /\ out.meta.h = "h1"
    /\ ~out.hashed

\* The UploadItems that the symlinks of the input would give.
SymlinkItems ==
    {ToUploadItem(assetsIn[i]) : i \in {j \in 1..Len(assetsIn) : IsSymlink(assetsIn[j])}}

\* C18: prepareItemsForUpload offers no UploadItem made of a FileAsset whose
\* metadata holds a link target, wherever the asset stands in the input.
C18_NoSymlinkEmitted ==
    \A i \in 1..Len(Offered) : Offered[i] \notin SymlinkItems /\ Offered[i].Digest # ""

\* The input began with a symlink, held a regular file after it, and all of
\* it was handled: the symlink was skipped, the file was emitted.
C18_Witness ==
    /\ Len(assetsIn) >= 2
    /\ IsSymlink(assetsIn[1])
    /\ \E i \in 2..Len(assetsIn) : ~IsSymlink(assetsIn[i])
    /\ prepPc = "done"
    /\ faQueue = <<>>
    /\ skipped >= 1
    /\ emitted # <<>>

\* The FileAssets of the input that are no symlinks.
RegularInputs == {assetsIn[i] : i \in {j \in 1..Len(assetsIn) : ~IsSymlink(assetsIn[j])}}

\* The upload step has received an item for the asset's path.
Consumed(fa) == \E k \in 1..Len(emitted) : emitted[k].Path = fa.fullPath

\* C19: when Archive returns nil, every non-symlink FileAsset of the input
\* has been received by the upload step, once per path, and its content is
\* in the store, pushed if it was missing.
C19_SuccessMeansAllStored ==
    archiveResult = "nil" =>
        \A fa \in RegularInputs : Consumed(fa) /\ fa.h \in stored

\* The declared variables that the map does not hold.
Absent == {declared[i] : i \in 1..Len(declared)} \ DOMAIN supplied

\* C20: if some declared variable is absent from the map, computeConfigName
\* returns no name and an error that names all absent variables, each once,
\* in sorted order; if none is absent it returns a name as long as
\* ConfigVariables whose slot i is bound to the value given for variable i,
\* whatever else the map holds.
C20_ComputeConfigName ==
    nameOut # <<>> =>
        LET r == nameOut[1]
        IN  IF Absent # {}
            THEN /\ r.err = "missing"
                 /\ r.name = <<>>
                 /\ {r.missing[i] : i \in 1..Len(r.missing)} = Absent
                 /\ \A i \in 1..(Len(r.missing) - 1) :
                       StrLess(r.missing[i], r.missing[i + 1])
            ELSE /\ r.err = "nil"
                 /\ Len(r.name) = Len(declared)
                 /\ \A i \in 1..Len(declared) : r.name[i] = Bound(supplied[declared[i]])

\* Both declared variables are absent, declared in descending order, while
\* the map holds an undeclared one.
C20_Witness ==
    /\ nameOut # <<>>
    /\ declared = <<"bit", "OS">>
    /\ DOMAIN supplied = {"chromeos"}
    /\ nameOut[1].missing = <<"OS", "bit">>

\* C21: with an algorithm other than "sha-1" HashFile returns its error
\* without opening the file, and FileToMetadata returns that error whenever
\* it has to compute the hash anew.
C21_UnsupportedAlgoFailsAtOnce ==
    (out.err # "none" /\ ranArgs.algo # "sha-1")
        => /\ ~out.opened
           /\ out.hashed => out.err = "unsupported"
           /\ HashFile(file, ranArgs.algo).err = "unsupported"
           /\ ~HashFile(file, ranArgs.algo).opened

\* A regular file whose record is stale was processed with md5.
C21_Witness ==
    /\ ranArgs # <<>>
    /\ ranArgs.algo = "md5"
    /\ ranPrevStat # NoStat
    /\ ranPrevStat.mtime # ranStat.mtime
    /\ out.hashed
    /\ out.err = "unsupported"

\* The digest of the isolated manifest of tree t, a value of its files.
ManifestDigest(t) == <<"manifest", DependencyFiles(t)>>

\* A FileAsset of the path was sent on chFileAssets.
AssetSent(f) == \E k \in 1..Len(faQueue) : faQueue[k].fullPath = f

\* C22: a worker that has isolated a tree has sent a FileAsset for each of
\* the tree's dependency files and holds the digest of the tree's manifest.
C22_IsolateTreeEmitsAssets ==
    \A i \in GenIds :
        workerPc[i] \in {"send", "done"} =>
            \E t \in GenIds :
                /\ \A f \in DependencyFiles(t) : AssetSent(f)
                /\ wHash[i] = ManifestDigest(t)

\* C23: an UploadItem has the digest and the priority of its FileAsset's
\* metadata and the fixed compression level, but no compression when the
\* file's extension is one of the already compressed types.
C23_NoCompressionOfCompressedTypes ==
    \A i \in 1..Len(Offered) :
        /\ Offered[i].Digest = HashOfPath(Offered[i].Path)
        /\ ~Offered[i].HighPriority
        /\ Offered[i].CompressionLevel =
              IF Extension(Offered[i].Path) \in ALREADY_COMPRESSED_TYPES THEN 0 ELSE 6

\* The settings c holds for a key, as a set (empty if c has no such key).
SettingsAt(pairs, key) == {pairs[i].Value : i \in {j \in 1..Len(pairs) : pairs[j].Key = key}}
KeysOf(pairs) == {pairs[i].Key : i \in 1..Len(pairs)}

\* What the union of lhs and rhs must hold for a key of either.
ExpectedAt(lp, rp, key) ==
    IF key \in KeysOf(lp) /\ key \in KeysOf(rp)
    THEN {ConfigSettingsUnion(l, r) : l \in SettingsAt(lp, key), r \in SettingsAt(rp, key)}
    ELSE SettingsAt(lp, key) \cup SettingsAt(rp, key)

\* u has the shape of lhs.Union(rhs).
UnionShape(lhs, rhs, u) ==
    LET vs == u.ConfigVariables
        lp == expandConfigVariables(lhs, vs)
        rp == expandConfigVariables(rhs, vs)
    IN  /\ {vs[i] : i \in 1..Len(vs)}
              = {lhs.ConfigVariables[i] : i \in 1..Len(lhs.ConfigVariables)}
                \cup {rhs.ConfigVariables[i] : i \in 1..Len(rhs.ConfigVariables)}
        /\ \A i \in 1..(Len(vs) - 1) : StrLess(vs[i], vs[i + 1])
        /\ KeysOf(u.ByConfig) = KeysOf(lp) \cup KeysOf(rp)
        /\ \A i, j \in 1..Len(u.ByConfig) : i # j => u.ByConfig[i].Key # u.ByConfig[j].Key
        /\ \A i \in 1..Len(u.ByConfig) :
              {u.ByConfig[i].Value} = ExpectedAt(lp, rp, u.ByConfig[i].Key)

\* C24: the ConfigVariables of Configs.Union are the sorted union, without
\* duplicates, of the operands' variables; ByConfig has one entry for each
\* realigned key of either operand, none twice; the settings of a key of
\* both operands are the ConfigSettings.Union of the two.
C24_UnionShape ==
    cfgPc \in {"pairs", "triples", "resolved"} =>
        /\ UnionShape(cfgA, cfgB, unionAB)
        /\ UnionShape(cfgB, cfgA, unionBA)

\* Both operands hold the key OS=linux with files, and one holds another key.
C24_Witness ==
    /\ cfgPc = "pairs"
    /\ cfgA.ConfigVariables = <<"OS">>
    /\ cfgB.ConfigVariables = <<"OS">>
    /\ Len(cfgA.ByConfig) = 2
    /\ Len(cfgB.ByConfig) = 1
    /\ cfgB.ByConfig[1].Key = <<Bound("linux")>>
    /\ <<Bound("linux")>> \in KeysOf(cfgA.ByConfig)
    /\ cfgB.ByConfig[1].Value.Files # <<>>
    /\ \A s \in SettingsAt(cfgA.ByConfig, <<Bound("linux")>>) : s.Files # <<>>
    /\ Len(unionAB.ByConfig) = 2

\* The slot of variable v in a key over the list variables.
SlotOf(key, variables, v) ==
    key[CHOOSE i \in 1..Len(variables) : variables[i] = v]

\* C25: expandConfigVariables, given a sorted duplicate-free list that holds
\* the operand's variables, returns for every pair a key as long as the new
\* list, whose slot of a variable the operand declares is the old slot of
\* that variable and whose other slots are unbound, with the pair's settings.
C25_ExpandRealignsByName ==
    expanded # <<>> =>
        /\ Len(expanded[1]) = Len(cfgA.ByConfig)
        /\ \A k \in 1..Len(cfgA.ByConfig) :
              /\ expanded[1][k].Value = cfgA.ByConfig[k].Value
              /\ Len(expanded[1][k].Key) = Len(expVars)
              /\ \A i \in 1..Len(expVars) :
                    expanded[1][k].Key[i] =
                        IF expVars[i] \in VariablesOf(cfgA.ConfigVariables)
                        THEN SlotOf(cfgA.ByConfig[k].Key, cfgA.ConfigVariables, expVars[i])
                        ELSE Unbound

\* A key bound on OS and on x was realigned to OS, bit, x: the new slot stands
\* between the old ones.
C25_Witness ==
    /\ expanded # <<>>
    /\ cfgA.ConfigVariables = <<"OS", "x">>
    /\ expVars = <<"OS", "bit", "x">>
    /\ Len(cfgA.ByConfig) = 2
    /\ cfgA.ByConfig[1].Key = <<Bound("mac"), Bound("64")>>
    /\ expanded[1][1].Key = <<Bound("mac"), Unbound, Bound("64")>>

\* Both operands of the union are non-empty objects.
BothNonEmpty == ~IsEmptyObject(setL) /\ ~IsEmptyObject(setR)

\* The side whose IsolateDir the union keeps is rhs.
BaseIsRhs ==
    IF setL.Command # <<>> THEN FALSE
    ELSE IF setR.Command # <<>> THEN TRUE
    ELSE setL.Files = <<>>

\* C26: the union of two non-empty settings has the command of lhs if lhs
\* has one, else that of rhs; its IsolateDir is that of the base side, which
\* is lhs if lhs has a command, else rhs if rhs has one, else rhs exactly
\* when lhs has no files.
C26_UnionCommandAndBase ==
    (setOut # <<>> /\ BothNonEmpty) =>
        /\ setOut[1].Command = IF setL.Command # <<>> THEN setL.Command ELSE setR.Command
        /\ setOut[1].IsolateDir = IF BaseIsRhs THEN setR.IsolateDir ELSE setL.IsolateDir

\* Neither side has a command, lhs has no files: the base is rhs, in another
\* directory than lhs.
C26_Witness ==
    /\ setOut # <<>>
    /\ BothNonEmpty
    /\ setL.Command = <<>>
    /\ setR.Command = <<>>
    /\ setL.Files = <<>>
    /\ setR.Files # <<>>
    /\ setL.IsolateDir # setR.IsolateDir
    /\ setOut[1].IsolateDir = setR.IsolateDir

\* The base side of the union and the other one, and the offset the code
\* takes between their directories.
BaseSide == IF BaseIsRhs THEN setR ELSE setL
NonBaseSide == IF BaseIsRhs THEN setL ELSE setR
Offset == FilepathRel(NonBaseSide.IsolateDir, BaseSide.IsolateDir)

\* A file of the non-base side as the union holds it.
Rewritten(f) ==
    IF f[1] = "<(X)" \/ BaseSide.IsolateDir = NonBaseSide.IsolateDir THEN f
    ELSE FilepathClean(Offset \o f)

\* C27: in the union of two non-empty settings the files are those of the
\* base side, unchanged, and those of the other side, each joined to the
\* relative offset unless it starts with "<("; with one IsolateDir on both
\* sides no file is rewritten.
C27_UnionRebasesNonBaseFiles ==
    (setOut # <<>> /\ BothNonEmpty) =>
        /\ setOut[1].Files =
              SortStrings(BaseSide.Files
                          \o [i \in 1..Len(NonBaseSide.Files) |->
                                 Rewritten(NonBaseSide.Files[i])])
        /\ setL.IsolateDir = setR.IsolateDir =>
              setOut[1].Files = SortStrings(setL.Files \o setR.Files)

\* The non-base side, in another directory, lists a file and a path
\* variable: the file is rewritten, the path variable is not.
C27_Witness ==
    /\ setOut # <<>>
    /\ BothNonEmpty
    /\ BaseSide.IsolateDir # NonBaseSide.IsolateDir
    /\ NonBaseSide.Files = <<<<"<(X)", "f">>, <<"f">>>>
    /\ BaseSide.Files = <<<<"f">>>>
    /\ \E i \in 1..Len(setOut[1].Files) : setOut[1].Files[i] = <<"<(X)", "f">>
    /\ \E i \in 1..Len(setOut[1].Files) : setOut[1].Files[i] = Offset \o <<"f">>

\* The entries of cfgA that match the query, in the order of
\* compareConfigNames, and those of them that are non-empty and have a command.
MatchingInOrder ==
    LET Agrees(e) == AgreesWhereKeyBound(e.Key, cfgQuery)
    IN  SelectSeq(SortPairs(cfgA.ByConfig), Agrees)
MatchingWithCommand ==
    LET HasCommand(e) == e.Value.IsolateDir # <<>> /\ e.Value.Command # <<>>
    IN  SelectSeq(MatchingInOrder, HasCommand)

\* The command of GetConfig is that of the first matching non-empty entry
\* with a command, whatever the order of ByConfig.
FirstCommandWins ==
    MatchingWithCommand # <<>> =>
        /\ getOut.Command = MatchingWithCommand[1].Value.Command
        /\ LET n == Len(cfgA.ByConfig)
               reversed == [cfgA EXCEPT !.ByConfig = [i \in 1..n |-> cfgA.ByConfig[n + 1 - i]]]
           IN  GetConfig(reversed, cfgQuery).Command = getOut.Command

\* The first slot on which one key is bound and the other is not (0 if none).
FirstBoundnessDiff(k1, k2) ==
    LET d == {i \in 1..Len(k1) : k1[i].IsBound # k2[i].IsBound}
    IN  IF d = {} THEN 0 ELSE CHOOSE i \in d : \A j \in d : i <= j

\* C28 as stated: the command is that of the first matching non-empty entry
\* with a command, and of two such entries the one unbound on a variable on
\* which the other is bound is not the one that gives the command.
C28_BoundOnAnyVariableWins ==
    cfgPc = "got" =>
        /\ FirstCommandWins
        /\ \A i, j \in 1..Len(MatchingWithCommand) :
              LET e == MatchingWithCommand[i]
                  u == MatchingWithCommand[j]
              IN  (\E n \in 1..Len(cfgQuery) : e.Key[n].IsBound /\ ~u.Key[n].IsBound)
                      => j # 1

\* C28 (amended): the command is that of the first matching non-empty entry
\* with a command, and of two such entries the one unbound on the first
\* variable on which exactly one of them is bound is not the one that gives
\* the command, whatever the order in which the entries were added.
C28_BoundOnFirstDifferingVariableWins ==
    cfgPc = "got" =>
        /\ FirstCommandWins
        /\ \A i, j \in 1..Len(MatchingWithCommand) :
              LET e == MatchingWithCommand[i]
                  u == MatchingWithCommand[j]
                  n == FirstBoundnessDiff(e.Key, u.Key)
              IN  (n # 0 /\ e.Key[n].IsBound) => j # 1

\* GetConfig ran on two matching entries with different commands, one
\* bound on the first variable on which the other is not; the bound entry
\* gave the command.
C28_Witness ==
    /\ cfgPc = "got"
    /\ Len(MatchingWithCommand) = 2
    /\ MatchingWithCommand[1].Value.Command # MatchingWithCommand[2].Value.Command
    /\ FirstBoundnessDiff(MatchingWithCommand[1].Key, MatchingWithCommand[2].Key) # 0
    /\ getOut.Command = MatchingWithCommand[1].Value.Command

\* The bits of the mode FileToMetadata computed: no group-write and no bit
\* of the others, no user-write if readOnly, group-execute exactly with
\* user-execute and group-read.
ModeBitsAsStated ==
    /\ BitAnd(out.mode, BitOr(S_IWGRP, S_IRWXO)) = 0
    /\ ranArgs.readOnly => BitAnd(out.mode, S_IWUSR) = 0
    /\ BitAnd(out.mode, S_IXGRP) # 0
          <=> (BitAnd(out.mode, S_IXUSR) # 0 /\ BitAnd(out.mode, S_IRGRP) # 0)

\* FileToMetadata computed the mode of an existing file with these bits.
ModeComputed == ranArgs # <<>> /\ ranStat # NoStat /\ file.exists
ModeBitsHold == ModeComputed => ModeBitsAsStated

\* C29: the mode FileToMetadata computes has no group-write and no bit of
\* the others, no user-write if readOnly, and group-execute exactly with
\* user-execute and group-read; it is recorded under "m" for the file.
C29_ModeRecordedUnderM ==
    ModeComputed => (ModeBitsAsStated /\ out.meta.m # <<>>)

\* The number of sends the collector has made on a channel.
SendsOn(c) == Cardinality({k \in 1..Len(collSends) : collSends[k].ch = c})

\* The collector is at a send that cannot proceed.
CollectorBlocked ==
    \/ collPc = "sendHashes" /\ ~CanSend(chIsolateHashes)
    \/ collPc \in {"sendNil", "sendErr"} /\ ~CanSend(chIsoErrors)

\* C30: the collector sends at most one value on chIsolateHashes and at most
\* one on chError, so that no send of it blocks; the nil on chError comes
\* after the map, and with a tree error no map is sent.
C30_CollectorSendsOncePerChannel ==
    /\ SendsOn("chIsolateHashes") <= 1
    /\ SendsOn("chError") <= 1
    /\ ~CollectorBlocked
    /\ \A k \in 1..Len(collSends) :
          (collSends[k].ch = "chError" /\ collSends[k].val = "nil")
              => (k = 2 /\ collSends[1].ch = "chIsolateHashes")
    /\ (\E k \in 1..Len(collSends) : collSends[k].ch = "chError" /\ collSends[k].val # "nil")
          => SendsOn("chIsolateHashes") = 0

\* The collector has returned after sending the map of two targets and the
\* nil, neither of which was received yet.
C30_Witness ==
    /\ collPc = "done"
    /\ Len(collSends) = 2
    /\ chIsolateHashes.buf = <<isolateHashes>>
    /\ DOMAIN isolateHashes.m = Names
    /\ chIsoErrors.buf = <<"nil">>

\* The collector has returned after a tree error, which it sent.
C30_WitnessError ==
    /\ collPc = "done"
    /\ collSends = <<[ch |-> "chError", val |-> "treeErr"]>>

\* C31: prepareItemsForUpload, blocked in the send of an item when the
\* interrupt is raised, gives the send up, takes no more input and closes
\* chOut; it also closes chOut once chIn is closed and drained. (As long as
\* the process runs.)
C31_InterruptedSendClosesOutput ==
    /\ [](prepPc = "done" => outClosed)
    /\ [][(prepPc = "send" /\ prepPc' # "send" /\ upPc # "recv")
             => (interrupted /\ prepPc' = "done" /\ emitted' = emitted)]_vars
    /\ [][prepPc = "done"
             => (prepPc' = "done" /\ faQueue' = faQueue /\ emitted' = emitted)]_vars
    /\ (prepPc = "send" /\ interrupted /\ Running) ~> (outClosed \/ ~Running)
    /\ (prepPc = "range" /\ faQueue = <<>> /\ faClosed /\ Running)
           ~> (outClosed \/ ~Running)

\* The goroutine has returned on the interrupt: the item it was sending was
\* not received, input is left in chIn and chOut is closed.
C31_Witness ==
    /\ prepPc = "done"
    /\ outClosed
    /\ interrupted
    /\ prepItem # <<>>
    /\ emitted = <<>>
    /\ faQueue # <<>>

\* The three key-value flags of the archive command.
KeyValueFlags == {<<"--path-variable">>, <<"--config-variable">>, <<"--extra-variable">>}

\* C32: convertPyToGoArchiveCMDArgs joins, after each of --path-variable,
\* --config-variable and --extra-variable, the key and the value that follow
\* into key=value; an argument after the flag that holds "=" is kept, and
\* every other argument is passed on in order.
C32_KeyValueFlagsJoined ==
    argsOut # <<>> => argsOut[1] = convertFrom(KeyValueFlags, argsIn, 1, <<>>)

\* C33: GetExactConfig(key) returns the settings of the entry of ByConfig
\* whose ConfigName is key, slot for slot, and true; without such an entry,
\* the empty settings and false.
C33_ExactConfigFound ==
    cfgPc = "exact" =>
        LET hits == {i \in 1..Len(cfgA.ByConfig) : cfgA.ByConfig[i].Key = cfgQuery}
        IN  IF hits # {}
            THEN \E i \in hits :
                    exactOut[1] = [value |-> cfgA.ByConfig[i].Value, found |-> TRUE]
            ELSE exactOut[1] = [value |-> EmptySettings, found |-> FALSE]

\* The pairs of a ByConfig, whatever their order.
PairSet(ps) == {ps[i] : i \in 1..Len(ps)}

\* C40: GetConfig changes nothing of the Configs but the order of ByConfig,
\* and a second GetConfig with the same ConfigName returns what the first
\* returned.
C40_GetConfigOnlyReorders ==
    cfgPc \in {"got", "again"} =>
        /\ cfgA.ConfigVariables = cfgBefore[1].ConfigVariables
        /\ cfgA.FileComment = cfgBefore[1].FileComment
        /\ Len(cfgA.ByConfig) = Len(cfgBefore[1].ByConfig)
        /\ PairSet(cfgA.ByConfig) = PairSet(cfgBefore[1].ByConfig)
        /\ cfgPc = "again" => getAgain[1] = getOut

\* GetConfig ran twice on two entries that the first call put in another
\* order, and returned settings.
C40_Witness ==
    /\ cfgPc = "again"
    /\ Len(cfgA.ByConfig) = 2
    /\ cfgA.ByConfig # cfgBefore[1].ByConfig
    /\ getOut # EmptySettings
    /\ getAgain = <<getOut>>

\* C39: ConfigSettings.Union leaves Files, Command, ReadOnly and IsolateDir
\* of both operands as they were, whichever side is the base.
C39_UnionLeavesOperands ==
    [][setL' = setL /\ setR' = setR]_vars

\* Union ran with rhs as the base, on two sides with files in different
\* directories, and returned files that neither side lists.
C39_Witness ==
    /\ setOut # <<>>
    /\ BothNonEmpty
    /\ BaseIsRhs
    /\ setL.IsolateDir # setR.IsolateDir
    /\ setL.Files # <<>>
    /\ setR.Files # <<>>
    /\ setOut[1].Files # setL.Files
    /\ setOut[1].Files # setR.Files

\* The absolute paths that the files of a list denote from a directory;
\* files that start with a path variable are left out.
AbsolutePaths(dir, files) ==
    {FilepathClean(dir \o files[i]) :
        i \in {k \in 1..Len(files) : files[k][1] # "<(X)"}}

\* C38: in the union of two non-empty settings with different IsolateDirs,
\* a rewritten file of the non-base side denotes from the IsolateDir of the
\* result the path that the original denotes from the IsolateDir of its
\* side.
C38_RewrittenFilesDenoteSamePaths ==
    (setOut # <<>> /\ BothNonEmpty /\ setL.IsolateDir # setR.IsolateDir) =>
        AbsolutePaths(setOut[1].IsolateDir, setOut[1].Files)
            = AbsolutePaths(BaseSide.IsolateDir, BaseSide.Files)
              \cup AbsolutePaths(NonBaseSide.IsolateDir, NonBaseSide.Files)

\* C37: where both operands of Configs.Union hold, for one realigned
\* ConfigName, non-empty settings with different commands, the entry of the
\* union is the left one's settings united with the right one's and has the
\* left one's command, however the sort arranges pairs of equal keys.
C37_LeftCommandKept ==
    cfgPc = "pairs" =>
        LET lPairs == expandConfigVariables(cfgA, unionAB.ConfigVariables)
            rPairs == expandConfigVariables(cfgB, unionAB.ConfigVariables)
        IN  \A i \in 1..Len(lPairs), j \in 1..Len(rPairs) :
               (/\ lPairs[i].Key = rPairs[j].Key
                /\ lPairs[i].Value.IsolateDir # <<>>
                /\ rPairs[j].Value.IsolateDir # <<>>
                /\ lPairs[i].Value.Command # <<>>
                /\ rPairs[j].Value.Command # <<>>
                /\ lPairs[i].Value.Command # rPairs[j].Value.Command)
               => \E k \in 1..Len(unionAB.ByConfig) :
                     /\ unionAB.ByConfig[k].Key = lPairs[i].Key
                     /\ unionAB.ByConfig[k].Value
                            = ConfigSettingsUnion(lPairs[i].Value, rPairs[j].Value)
                     /\ unionAB.ByConfig[k].Value.Command = lPairs[i].Value.Command

\* C34: when no tree fails, Isolate returns: with a nil error and the map
\* that the collector produced, not the nil map.
NoTreeFails == \A i \in GenIds : wErr[i] = "nil"
C34_IsolateReturnsMap ==
    NoTreeFails ~> (mainPc = "returned" /\ mainResult = "nil" /\ ~isolatedHashes.isNil)

\* C35: with two or more trees, once the collector has received a result
\* that carries an error, every worker still finishes (none stays at its
\* send on chResults) and chFileAssets and chResults are closed in the end.
WorkersFinished == \A i \in GenIds : workerPc[i] \in {"idle", "done"}
C36_NoSendOnClosedChannel ==
    /\ []((resultsClosed \/ faClosed)
             => (resultsClosed /\ faClosed /\ treesClosed /\ WorkersFinished))
    /\ [][resultsClosed => (workerPc' = workerPc /\ Len(faQueue') <= Len(faQueue))]_vars
    /\ [][collSends' # collSends
             => (~chIsoErrors.closed /\ ~chIsolateHashes.closed)]_vars
C36_Witness ==
    /\ resultsClosed
    /\ faClosed
    /\ \E i \in GenIds : workerPc[i] = "done"
    /\ collSends # <<>>

====
